---------------------------- MODULE Spec2Model ----------------------------
(***************************************************************************)
(* Model of the CHICX conversational-commerce bot (chicx-bot/app).         *)
(*                                                                         *)
(* The module holds ten state machines over one set of variables; each     *)
(* specification runs one of them and leaves the others idle:              *)
(*   SpecOrder   - voice tool get_order_status and phone normalisation     *)
(*   SpecLoop    - the LLM tool-calling loop chat_with_tools               *)
(*   SpecDedup   - WhatsApp process_message and its duplicate check        *)
(*   SpecContext - the conversation context store of one phone number      *)
(*   SpecRetry   - chat_completion under its retry decorator               *)
(*   SpecVoice   - Bolna / Exotel call webhooks and the calls table        *)
(*   SpecTool    - handle_tool_call of the voice agent                     *)
(*   SpecChatTool - one tool call of the chat loop and its validation      *)
(*   SpecPhone   - normalize_phone on the written forms of a number        *)
(*   SpecShip    - the Shiprocket client, its token and its HTTP client    *)
(* over the machine of SpecContext, with calls made one at a time:         *)
(*   SpecContextCap - the context store beyond its limit of turns          *)
(* over the machine of SpecPhone, normalize_phone applied a second time:    *)
(*   SpecPhoneTwice - normalize_phone applied to its own result            *)
(* over the machine of SpecDedup, deliveries handled one at a time:        *)
(*   SpecRedeliver  - a message redelivered after its processing failed    *)
(* and, over the machine of SpecVoice with other deliveries:               *)
(*   SpecConfirm    - the pending-confirmation ledger                      *)
(*   SpecClassify   - the confirmation classifier, one call at a time      *)
(*   SpecEventOrder - two Bolna events, one after the other                *)
(*   SpecFields     - events that supply or omit the optional call fields  *)
(*   SpecLastWriter - the same with transcript events that carry a language*)
(*   SpecProvider   - Bolna and Exotel events with an unlisted status      *)
(*   SpecNotify     - confirmations whose backend notification fails       *)
(*                                                                         *)
(* Text is modelled as a sequence of one-character strings, so that the    *)
(* string operations of the code (strip, replace, substring test) are      *)
(* computed rather than assumed.                                           *)
(***************************************************************************)
EXTENDS Integers, Sequences, FiniteSets, TLC

VARIABLES
    \* --- SpecOrder: execute_get_order_status -------------------------------
    opc,            \* "input" | "done"
    order_id,       \* args["order_id"]
    user_phone,     \* payload.user_phone
    backend,        \* what client.get_order answers: [kind, order]
    orderResult,    \* the dict execute_get_order_status returns
    \* --- SpecLoop: chat_with_tools / _get_llm_response ---------------------
    lpc,            \* position in chat_with_tools
    max_iterations, \* argument max_iterations
    iterations,     \* local counter iterations
    llm_calls,      \* number of chat_completion calls made so far
    tools_offered,  \* per chat_completion call: was the tool list passed
    response,       \* last chat_completion result
    conversation,   \* turns appended to the local conversation list
    tool_calls_made, \* names of the tool calls executed so far, in order
    content,        \* result["content"] of chat_with_tools
    response_text,  \* reply text of _get_llm_response
    \* --- SpecDedup: process_message ---------------------------------------
    wpc,            \* per delivery: position in process_message
    wmsg,           \* per delivery: message.message_id
    processed,      \* redis keys wa:msg:processed:<id> that exist
    ttlElapsed,     \* message ids whose dedup key has expired at least once
    sent,           \* per message id: number of replies sent
    returned,       \* per delivery: value returned by process_message
    \* --- SpecVoice: call webhooks, calls table, pending confirmations -------
    vpc,            \* per worker: position in its webhook handler
    vev,            \* per worker: the payload being handled
    vreq,           \* per worker: number of the request (source of new ids)
    vcall,          \* per worker: local variable call (empty or one row)
    vtx,            \* per worker: uncommitted writes of its db session
    vkeys,          \* per worker: keys of process_confirmation_call not yet visited
    vkey,           \* per worker: the pending entry being resolved, or ""
    voutcome,       \* per worker: confirmation_result (empty or one outcome)
    vret,           \* per worker: how the handler ended
    vreplay,        \* per worker: the call had resolved a confirmation before this delivery began
    voverlap,       \* per worker: another delivery was in progress during this one
    calls,          \* committed rows of table calls
    users,          \* committed rows of table users (phone is the unique key)
    conversations,  \* committed rows of table conversations (ids)
    transcripts,    \* committed rows of table call_transcripts
    pending,        \* redis keys pending_confirmation:<order_id> that exist
    requested,      \* orders for which /confirm-order was received
    outbound,       \* per order: Bolna call id of its confirmation call
    notifications,  \* confirm_order calls made to the order backend, in order
    resolved,       \* call ids whose call-complete returned a confirmation outcome
    started,        \* number of webhook deliveries begun
    \* --- SpecContext: the conversation context of one phone number ---------
    xpc,            \* per message: position in _get_llm_response
    xlocal,         \* per message: the context list it last read
    context,        \* redis value of wa:context:<phone>, a list of turns
    appended,       \* every turn given to add_to_context so far, in call order
    \* --- SpecRetry: chat_completion under its retry decorator ---------------
    rpc,            \* "idle" | "attempt" | "returned" | "raised"
    rattempt,       \* attempts made by the call in progress
    rerror,         \* exception the last finished call raised, or "none"
    rlog,           \* finished calls: attempts made, transport faults met, result
    \* --- SpecTool: handle_tool_call of the voice agent ----------------------
    tpc,            \* "input" | "executed" | "caught" | "responded"
    tool_name,      \* payload.tool_name
    tool_args,      \* payload.arguments and payload.user_phone, as far as used
    tool_fault,     \* how the collaborator behind the tool behaves
    tool_response,  \* result of the execute_* function, then the HTTP answer
    \* --- SpecPhone: normalize_phone applied to one written number ----------
    ppc,            \* "input" | "done"
    phone_number,   \* the ten-digit number the caller means
    written,        \* the argument phone: that number as written, or None
    normalized,     \* the value normalize_phone returned
    \* --- SpecShip: the ShiprocketClient singleton ---------------------------
    token,          \* self._token: empty for None, else the one token held
    token_expires,  \* self._token_expires: empty for None, else the day of expiry
    client,         \* self._client: empty for None, else the one httpx client
    now,            \* datetime.now(timezone.utc), in days
    logins,         \* tokens the Shiprocket login endpoint has issued
    requests        \* tracking calls made, in order

orderVars == <<opc, order_id, user_phone, backend, orderResult>>
loopVars  == <<lpc, max_iterations, iterations, llm_calls, tools_offered,
               response, conversation, tool_calls_made, content, response_text>>
dedupVars == <<wpc, wmsg, processed, ttlElapsed, sent, returned>>
workerVars == <<vpc, vev, vreq, vcall, vtx, vkeys, vkey, voutcome, vret, vreplay, voverlap>>
dbVars    == <<calls, users, conversations, transcripts>>
redisVars == <<pending, requested, outbound, notifications, resolved>>
voiceVars == <<workerVars, dbVars, redisVars, started>>
contextVars == <<xpc, xlocal, context, appended>>
retryVars == <<rpc, rattempt, rerror, rlog>>
toolVars == <<tpc, tool_name, tool_args, tool_fault, tool_response>>
phoneVars == <<ppc, phone_number, written, normalized>>
shipVars == <<token, token_expires, client, now, logins, requests>>
vars == <<orderVars, loopVars, dedupVars, voiceVars, contextVars, retryVars, toolVars,
          phoneVars, shipVars>>

\* what the actions of one state machine leave alone
notOrder == <<loopVars, dedupVars, voiceVars, contextVars, retryVars, toolVars,
             phoneVars, shipVars>>
notLoop  == <<orderVars, dedupVars, voiceVars, contextVars, retryVars, toolVars,
             phoneVars, shipVars>>
notDedup == <<orderVars, loopVars, voiceVars, contextVars, retryVars, toolVars,
             phoneVars, shipVars>>
notVoice == <<orderVars, loopVars, dedupVars, contextVars, retryVars, toolVars,
             phoneVars, shipVars>>
notContext == <<orderVars, loopVars, dedupVars, voiceVars, retryVars, toolVars,
             phoneVars, shipVars>>
notRetry == <<orderVars, loopVars, dedupVars, voiceVars, contextVars, toolVars,
             phoneVars, shipVars>>
notTool == <<orderVars, loopVars, dedupVars, voiceVars, contextVars, retryVars,
             phoneVars, shipVars>>
notPhone == <<orderVars, loopVars, dedupVars, voiceVars, contextVars, retryVars, toolVars,
             shipVars>>
notShip == <<orderVars, loopVars, dedupVars, voiceVars, contextVars, retryVars, toolVars,
             phoneVars>>

-----------------------------------------------------------------------------
(* Text helpers                                                            *)

\* Python None where a str is expected; no text is equal to it.
None == <<"None">>

Digits == {"0", "1", "2", "3", "4", "5", "6", "7", "8", "9"}

\* not x, for x: str | None
Falsy(s) == s = None \/ s = <<>>

\* str.isdigit on a non-empty string
IsDigit(s) == Len(s) > 0 /\ \A i \in 1..Len(s) : s[i] \in Digits

\* str.startswith
StartsWith(s, p) == Len(s) >= Len(p) /\ SubSeq(s, 1, Len(p)) = p

\* str.replace(c, "") for a one-character c
RemoveChar(s, c) == SelectSeq(s, LAMBDA x : x # c)

\* str.lstrip(c) for a one-character c
RECURSIVE LStripChar(_, _)
LStripChar(s, c) ==
    IF Len(s) > 0 /\ Head(s) = c THEN LStripChar(Tail(s), c) ELSE s

\* str.strip(): whitespace removed at both ends
RECURSIVE LStripSpace(_)
LStripSpace(s) ==
    IF Len(s) > 0 /\ Head(s) = " " THEN LStripSpace(Tail(s)) ELSE s

RECURSIVE RStripSpace(_)
RStripSpace(s) ==
    IF Len(s) > 0 /\ s[Len(s)] = " " THEN RStripSpace(SubSeq(s, 1, Len(s) - 1)) ELSE s

Strip(s) == RStripSpace(LStripSpace(s))

-----------------------------------------------------------------------------
(* app/utils/phone.py                                                      *)

\* re.sub(r"[^\d+]", "", phone)
KeepDigitsAndPlus(s) == SelectSeq(s, LAMBDA x : x \in Digits \cup {"+"})

\* if "+" in phone: phone = "+" + phone.replace("+", "")
PlusToFront(s) ==
    IF \E i \in 1..Len(s) : s[i] = "+" THEN <<"+">> \o RemoveChar(s, "+") ELSE s

\* the Indian-number branches, lines 39-51
AddCountryCode(p) ==
    IF Len(p) = 10 /\ IsDigit(p) THEN <<"+", "9", "1">> \o p
    ELSE IF Len(p) = 11 /\ StartsWith(p, <<"9", "1">>) THEN <<"+">> \o p
    ELSE IF Len(p) = 12 /\ StartsWith(p, <<"+", "9", "1">>) THEN p
    ELSE IF Len(p) = 13 /\ StartsWith(p, <<"+", "9", "1", "0">>)
         THEN <<"+", "9", "1">> \o SubSeq(p, 5, Len(p))
    ELSE p

\* normalize_phone of app/utils/phone.py; both exits of the final validation
\* return the same value
normalize_phone(phone) ==
    IF Falsy(phone) THEN <<>>
    ELSE AddCountryCode(PlusToFront(KeepDigitsAndPlus(phone)))


-----------------------------------------------------------------------------
(* app/api/webhooks/bolna.py: execute_get_order_status (voice channel)     *)

\* status_messages, lines 443-450
StatusMessage(status) ==
    CASE status = "placed"           -> "Your order has been placed and is being processed."
      [] status = "confirmed"        -> "Your order is confirmed and will be shipped soon."
      [] status = "shipped"          -> "Great news! Your order has been shipped."
      [] status = "out_for_delivery" -> "Your order is out for delivery today!"
      [] status = "delivered"        -> "Your order has been delivered."
      [] status = "cancelled"        -> "This order has been cancelled."
      [] OTHER                       -> "Your order status is " \o status \o "."

\* A weaker comparison: the last ten digits of both numbers agree.
LastTenDigits(p) ==
    LET d == SelectSeq(p, LAMBDA x : x \in Digits)
    IN  IF Len(d) > 10 THEN SubSeq(d, Len(d) - 9, Len(d)) ELSE d

PhonesMatchByLastTenDigits(caller, order_phone) ==
    LastTenDigits(caller) = LastTenDigits(order_phone)

\* lines 429-432: the ownership test (normalized_caller != normalized_order)
PhonesMatch(caller, order_phone) ==
    normalize_phone(caller) = normalize_phone(order_phone)

\* lines 442-457: the answer for the owner of the order
AuthorizedResult(order) ==
    [status  |-> order.status,
     message |-> IF order.tracking_number # ""
                 THEN <<StatusMessage(order.status),
                        " Your tracking number is ", order.tracking_number, ".">>
                 ELSE <<StatusMessage(order.status)>>]

\* lines 398-461. bk is the answer of client.get_order(order_id):
\* kind "found" with the order, kind "none" (None) or kind "error" (ChicxAPIError).
execute_get_order_status(oid, phone, bk) ==
    IF oid = ""
    THEN [message |-> <<"Please provide your order ID. You can find it in your confirmation email.">>]
    ELSE IF Falsy(phone)
    THEN [message |-> <<"Unable to verify your identity. Please try calling again.">>]
    ELSE IF bk.kind = "error"
    THEN [message |-> <<"Sorry, I couldn't check your order status right now. Please try again.">>]
    ELSE IF bk.kind = "none"
    THEN [message |-> <<"I couldn't find order ", oid,
                        ". Please check the order ID and try again.">>]
    ELSE IF ~PhonesMatch(phone, bk.order.phone)
    THEN [message |-> <<"Order ", oid,
                        " not found in your account. Please check the order ID.">>]
    ELSE AuthorizedResult(bk.order)

\* --- inputs -----------------------------------------------------------------
NumberA == <<"9", "8", "7", "6", "5", "4", "3", "2", "1", "0">>
NumberB == <<"9", "8", "7", "6", "5", "4", "3", "2", "1", "1">>
NumberZ == <<"0", "9", "8", "7", "6", "5", "4", "3", "2", "1">>

\* the written forms of one ten-digit number
Forms(n) ==
    { n,
      <<"+", "9", "1">> \o n,
      <<"9", "1">> \o n,
      <<"0">> \o n,
      <<"+">> \o n,
      <<"+", "9", "1", "0">> \o n,
      <<"+", "9", "1", "-">> \o SubSeq(n, 1, 5) \o <<"-">> \o SubSeq(n, 6, 10),
      SubSeq(n, 1, 5) \o <<" ">> \o SubSeq(n, 6, 10),
      <<"9", "1", " ">> \o n }

CallerPhones == Forms(NumberA) \cup {NumberB, NumberZ, <<>>, None, <<" ">>, <<"-", "-">>}
OrderPhones  == Forms(NumberA) \cup {NumberB, <<"+", "9", "1">> \o NumberB, NumberZ, <<>>}
OrderIds     == {"", "ORD1"}
OrderStatuses == {"shipped", "on_hold"}
TrackingNumbers == {"", "AWB1"}

Backends ==
    {[kind |-> "none"], [kind |-> "error"]}
    \cup {[kind |-> "found",
           order |-> [phone |-> p, status |-> s, tracking_number |-> t]] :
            p \in OrderPhones, s \in OrderStatuses, t \in TrackingNumbers}

NoResult == [message |-> <<>>]

Number9 == <<"9", "1", "9", "8", "7", "6", "5", "4", "3", "2">>
Number6 == <<"6", "0", "0", "0", "0", "0", "0", "0", "0", "1">>

TenDigitNumbers == {NumberA, NumberB, NumberZ, Number9, Number6}
Prefixes   == {<<>>, <<"9", "1">>, <<"+", "9", "1">>}
Separators == {<<>>, <<" ">>, <<"-">>}

\* the number n written with a prefix, in one piece or in groups of 3, 3 and 4
\* digits, the parts joined by the separator
WrittenForm(n, prefix, sep, grouped) ==
    LET body == IF grouped
                THEN SubSeq(n, 1, 3) \o sep \o SubSeq(n, 4, 6) \o sep \o SubSeq(n, 7, 10)
                ELSE n
    IN  IF prefix = <<>> THEN body ELSE prefix \o sep \o body

PhoneInputs ==
    {[phone_number |-> n, phone |-> WrittenForm(n, prefix, sep, grouped)] :
        n \in TenDigitNumbers, prefix \in Prefixes, sep \in Separators,
        grouped \in BOOLEAN}
    \cup {[phone_number |-> <<>>, phone |-> None]}

InitPhone ==
    /\ ppc = "input"
    /\ \E i \in PhoneInputs : phone_number = i.phone_number /\ written = i.phone
    /\ normalized = None

IdlePhone ==
    /\ ppc = "idle"
    /\ phone_number = <<>>
    /\ written = None
    /\ normalized = None

\* one call normalize_phone(phone)
NormalizePhone ==
    /\ ppc = "input"
    /\ ppc' = "done"
    /\ normalized' = normalize_phone(written)
    /\ UNCHANGED <<phone_number, written>>
    /\ UNCHANGED notPhone

\* --- app/services/shiprocket.py: ShiprocketClient ---

\* line 82: a token is taken to be valid for timedelta(days=10)
TOKEN_VALID_DAYS == 10

\* line 61: the token is renewed timedelta(days=1) before its expiry
REFRESH_DAYS_BEFORE == 1

\* days the clock runs, and tracking calls made
MaxDays == 20
MaxRequests == 3

\* f"Bearer {self._token}"
Bearer(t) == <<"Bearer ", t>>

\* lines 56-61
token_expired(expires, today) ==
    IF expires = {} THEN TRUE
    ELSE \E e \in expires : today >= e - REFRESH_DAYS_BEFORE

\* line 42: a new token is needed
NeedsToken == token = {} \/ token_expired(token_expires, now)

\* lines 45-53: the client _get_client returns once the token is t: the
\* existing client unless there is none or it is closed
get_client(t) ==
    IF client = {} \/ (\E c \in client : c.is_closed)
    THEN {[authorization |-> Bearer(t), is_closed |-> FALSE]}
    ELSE client

\* lines 32-37: the state after construction
InitShip ==
    /\ token = {}
    /\ token_expires = {}
    /\ client = {}
    /\ now = 0
    /\ logins = 0
    /\ requests = <<>>

IdleShip ==
    /\ token = {}
    /\ token_expires = {}
    /\ client = {}
    /\ now = -1
    /\ logins = 0
    /\ requests = <<>>

\* track_by_awb / track_by_order_id (lines 103-115, 172-184): _get_client, with
\* a login when a token is needed (lines 63-84), then the GET on the client
TrackShipment ==
    /\ now >= 0
    /\ Len(requests) < MaxRequests
    /\ LET t == IF NeedsToken THEN {logins + 1} ELSE token
           c == get_client(t)
       IN  /\ token' = t
           /\ token_expires' = IF NeedsToken THEN {now + TOKEN_VALID_DAYS} ELSE token_expires
           /\ logins' = IF NeedsToken THEN logins + 1 ELSE logins
           /\ client' = c
           /\ requests' = Append(requests,
                  [sent |-> TRUE,
                   authorization |-> (CHOOSE h \in {x.authorization : x \in c} : TRUE),
                   token |-> t])
    /\ UNCHANGED now
    /\ UNCHANGED notShip

\* the same call when the login fails (lines 86-91): ShiprocketAPIError leaves
\* _get_client before a client is made, no GET is sent
TrackShipmentLoginFails ==
    /\ now >= 0
    /\ Len(requests) < MaxRequests
    /\ NeedsToken
    /\ requests' = Append(requests,
           [sent |-> FALSE, authorization |-> <<>>, token |-> token])
    /\ UNCHANGED <<token, token_expires, client, now, logins>>
    /\ UNCHANGED notShip

\* close (lines 93-96)
CloseShiprocket ==
    /\ now >= 0
    /\ \E c \in client : ~c.is_closed
    /\ client' = {[c EXCEPT !.is_closed = TRUE] : c \in client}
    /\ UNCHANGED <<token, token_expires, now, logins, requests>>
    /\ UNCHANGED notShip

\* a day passes
DayPasses ==
    /\ now >= 0
    /\ now < MaxDays
    /\ now' = now + 1
    /\ UNCHANGED <<token, token_expires, client, logins, requests>>
    /\ UNCHANGED notShip

\* normalize_phone applied to its own result: the value returned by the first
\* call is the argument of the second
NormalizeAgain ==
    /\ ppc = "done"
    /\ ppc' = "again"
    /\ written' = normalized
    /\ normalized' = normalize_phone(normalized)
    /\ UNCHANGED phone_number
    /\ UNCHANGED notPhone

InitOrder ==
    /\ opc = "input"
    /\ order_id \in OrderIds
    /\ user_phone \in CallerPhones
    /\ backend \in Backends
    /\ orderResult = NoResult

IdleOrder ==
    /\ opc = "idle"
    /\ order_id = ""
    /\ user_phone = <<>>
    /\ backend = [kind |-> "none"]
    /\ orderResult = NoResult

\* handle_tool_call with tool_name = "get_order_status" (lines 179-180)
GetOrderStatus ==
    /\ opc = "input"
    /\ opc' = "done"
    /\ orderResult' = execute_get_order_status(order_id, user_phone, backend)
    /\ UNCHANGED <<order_id, user_phone, backend>>
    /\ UNCHANGED notOrder

-----------------------------------------------------------------------------
(* app/core/llm.py: OpenRouterClient.chat_with_tools, and its caller       *)
(* WhatsAppService._get_llm_response (app/services/whatsapp.py)            *)

\* Largest max_iterations explored; 5 is the value _get_llm_response passes.
MaxIterationsBound == 5

\* Fixed replies; each is one chunk of text
CapApology      == <<"I apologize, but I need more information to help you.">>
EmptyApology    == <<"I apologize, I couldn't generate a response.">>
TroubleApology  == <<"I'm having trouble processing your message right now. Please try again in a moment or contact support@chicx.in for help.">>
SomeText        == <<"H", "i">>

\* message.content of a chat completion: None, "" or text
Contents == {None, <<>>, SomeText}

ToolCallA == [id |-> "call_a", name |-> "search_products"]
ToolCallB == [id |-> "call_b", name |-> "get_order_status"]

\* message.tool_calls: absent, or a list of one or two calls
ToolCallLists == {<<>>, <<ToolCallA>>, <<ToolCallA, ToolCallB>>}

\* what chat_completion returns (lines 161-183), usage left out
Responses == [content : Contents, tool_calls : ToolCallLists]

NoResponse == [content |-> None, tool_calls |-> <<>>]

\* the positions a tool call can have in a response
ToolCallPositions == UNION {DOMAIN list : list \in ToolCallLists}

\* x or y, for text
Or(x, y) == IF Falsy(x) THEN y ELSE x

\* lines 289-293: the tool turn appended for one tool call
ToolTurn(tc) ==
    [role |-> "tool", tool_call_id |-> tc.id, content |-> <<"result of ", tc.name>>]

\* the tool turns appended in the reverse of the request order
TurnsForReversed(resp) ==
    <<[role |-> "assistant", content |-> resp.content, tool_calls |-> resp.tool_calls]>>
    \o [i \in 1..Len(resp.tool_calls) |->
           ToolTurn(resp.tool_calls[Len(resp.tool_calls) + 1 - i])]

\* lines 263-293: the assistant turn and one tool turn per call, in order
TurnsFor(resp) ==
    <<[role |-> "assistant", content |-> resp.content, tool_calls |-> resp.tool_calls]>>
    \o [i \in 1..Len(resp.tool_calls) |-> ToolTurn(resp.tool_calls[i])]

\* lines 282-286: one entry of tool_calls_made per executed call
CallsMade(tool_calls) == [i \in 1..Len(tool_calls) |-> tool_calls[i].name]

\* the cap exit without its fallback text
CapContentRaw(resp) == resp.content

\* line 306: response.get("content") or the fixed apology
CapContent(resp) == Or(resp.content, CapApology)

\* the wrapper passing the content on as it is
ReplyTextRaw(c) == c

\* whatsapp.py line 653: result["content"] or the fixed apology
ReplyText(c) == Or(c, EmptyApology)

\* the loop test with the cap off by one
LoopContinuesOffByOne(it, maxit) == it <= maxit

\* line 247: while iterations < max_iterations
LoopContinues(it, maxit) == it < maxit

\* a loop that passes the tool list on every call
OffersToolsAlways(it, maxit) == TRUE

\* line 252: tools=tools if iterations < max_iterations else None, with the
\* counter already incremented (chat_completion adds a non-empty list to the
\* request, lines 134-137)
OffersTools(it, maxit) == it < maxit

InitLoop ==
    /\ lpc = "while"
    /\ max_iterations \in 1..MaxIterationsBound
    /\ iterations = 0
    /\ llm_calls = 0
    /\ tools_offered = <<>>
    /\ response = NoResponse
    /\ conversation = <<>>
    /\ tool_calls_made = <<>>
    /\ content = None
    /\ response_text = None

IdleLoop ==
    /\ lpc = "idle"
    /\ max_iterations = 0
    /\ iterations = 0
    /\ llm_calls = 0
    /\ tools_offered = <<>>
    /\ response = NoResponse
    /\ conversation = <<>>
    /\ tool_calls_made = <<>>
    /\ content = None
    /\ response_text = None

\* lines 247-254: one more round; chat_completion answers resp
ChatCompletion(resp) ==
    /\ lpc = "while"
    /\ LoopContinues(iterations, max_iterations)
    /\ iterations' = iterations + 1
    /\ llm_calls' = llm_calls + 1
    /\ tools_offered' = Append(tools_offered, OffersTools(iterations', max_iterations))
    /\ response' = resp
    /\ lpc' = "got_response"
    /\ UNCHANGED <<max_iterations, tool_calls_made, conversation, content, response_text>>
    /\ UNCHANGED notLoop

\* lines 247-254 with chat_completion raising an LLMError
ChatCompletionRaises ==
    /\ lpc = "while"
    /\ LoopContinues(iterations, max_iterations)
    /\ iterations' = iterations + 1
    /\ llm_calls' = llm_calls + 1
    /\ tools_offered' = Append(tools_offered, OffersTools(iterations', max_iterations))
    /\ lpc' = "raised"
    /\ UNCHANGED <<max_iterations, tool_calls_made, response, conversation, content, response_text>>
    /\ UNCHANGED notLoop

\* lines 261-293: the response asks for tools, and every call returns
RunTools ==
    /\ lpc = "got_response"
    /\ response.tool_calls # <<>>
    /\ conversation' = conversation \o TurnsFor(response)
    /\ tool_calls_made' = tool_calls_made \o CallsMade(response.tool_calls)
    /\ lpc' = "while"
    /\ UNCHANGED <<max_iterations, iterations, llm_calls, tools_offered, response,
                   content, response_text>>
    /\ UNCHANGED notLoop

\* lines 261-280: tool_executor.execute raises on the i-th call (it validates
\* the arguments outside its try block); the turns and calls before it stay,
\* and the exception leaves chat_with_tools
RunToolsRaises(i) ==
    /\ lpc = "got_response"
    /\ i \in 1..Len(response.tool_calls)
    /\ conversation' = conversation \o SubSeq(TurnsFor(response), 1, i)
    /\ tool_calls_made' = tool_calls_made \o CallsMade(SubSeq(response.tool_calls, 1, i - 1))
    /\ lpc' = "raised"
    /\ UNCHANGED <<max_iterations, iterations, llm_calls, tools_offered, response,
                   content, response_text>>
    /\ UNCHANGED notLoop

\* lines 294-301: a response without tool calls ends the loop
ReturnFinal ==
    /\ lpc = "got_response"
    /\ response.tool_calls = <<>>
    /\ content' = response.content
    /\ lpc' = "returned_final"
    /\ UNCHANGED <<max_iterations, tool_calls_made, iterations, llm_calls, tools_offered, response,
                   conversation, response_text>>
    /\ UNCHANGED notLoop

\* lines 303-310: the loop test fails, the cap is reached
ReturnAtCap ==
    /\ lpc = "while"
    /\ ~LoopContinues(iterations, max_iterations)
    /\ content' = CapContent(response)
    /\ lpc' = "returned_cap"
    /\ UNCHANGED <<max_iterations, tool_calls_made, iterations, llm_calls, tools_offered, response,
                   conversation, response_text>>
    /\ UNCHANGED notLoop

\* whatsapp.py lines 645-664: _get_llm_response takes the result
GetLlmResponse ==
    /\ lpc \in {"returned_final", "returned_cap"}
    /\ response_text' = ReplyText(content)
    /\ lpc' = "replied"
    /\ UNCHANGED <<max_iterations, tool_calls_made, iterations, llm_calls, tools_offered, response,
                   conversation, content>>
    /\ UNCHANGED notLoop

\* whatsapp.py line 619: reading the context store raises before the loop has
\* called the LLM (get_conversation_context catches JSONDecodeError only, and
\* the read stands outside the try block of _get_llm_response)
GetConversationContextRaises ==
    /\ lpc = "while"
    /\ llm_calls = 0
    /\ lpc' = "raised"
    /\ UNCHANGED <<max_iterations, tool_calls_made, iterations, llm_calls, tools_offered, response,
                   conversation, content, response_text>>
    /\ UNCHANGED notLoop

\* whatsapp.py lines 656-657: storing the turns in the context store raises (a
\* redis error is not an LLMError and nothing in _get_llm_response catches it)
AddToContextRaises ==
    /\ lpc \in {"returned_final", "returned_cap"}
    /\ lpc' = "raised"
    /\ UNCHANGED <<max_iterations, tool_calls_made, iterations, llm_calls, tools_offered, response,
                   conversation, content, response_text>>
    /\ UNCHANGED notLoop

\* a process_message without the handler of lines 583-588: the exception leaves it
ReplyPropagates ==
    /\ lpc = "raised"
    /\ lpc' = "propagated"
    /\ UNCHANGED <<max_iterations, tool_calls_made, iterations, llm_calls, tools_offered, response,
                   conversation, content, response_text>>
    /\ UNCHANGED notLoop

\* whatsapp.py lines 577-588: an exception of _get_llm_response, the re-raised
\* LLMError of lines 666-668 or any other, is caught by process_message
ReplyApology ==
    /\ lpc = "raised"
    /\ response_text' = TroubleApology
    /\ lpc' = "replied"
    /\ UNCHANGED <<max_iterations, tool_calls_made, iterations, llm_calls, tools_offered, response,
                   conversation, content>>
    /\ UNCHANGED notLoop

-----------------------------------------------------------------------------
(* app/services/whatsapp.py: WhatsAppService.process_message               *)

\* Number of webhook deliveries handled concurrently
NumDeliveries == 3

Deliveries == 1..NumDeliveries
MessageIds == {"wamid.1", "wamid.2"}

InitDedup ==
    /\ wpc = [d \in Deliveries |-> "idle"]
    /\ wmsg = [d \in Deliveries |-> ""]
    /\ processed = {}
    /\ ttlElapsed = {}
    /\ sent = [m \in MessageIds |-> 0]
    /\ returned = [d \in Deliveries |-> "pending"]

IdleDedup ==
    /\ wpc = <<>>
    /\ wmsg = <<>>
    /\ processed = {}
    /\ ttlElapsed = {}
    /\ sent = <<>>
    /\ returned = <<>>

\* whatsapp.py webhook line 189: a delivery of message m enters process_message
Deliver(d, m) ==
    /\ wpc[d] = "idle"
    /\ wpc' = [wpc EXCEPT ![d] = "check"]
    /\ wmsg' = [wmsg EXCEPT ![d] = m]
    /\ UNCHANGED <<processed, ttlElapsed, sent, returned>>
    /\ UNCHANGED notDedup

\* lines 301-312 and 536-538: redis EXISTS, and the early return on a duplicate
IsDuplicateMessage(d) ==
    /\ wpc[d] = "check"
    /\ IF wmsg[d] \in processed
       THEN /\ wpc' = [wpc EXCEPT ![d] = "done"]
            /\ returned' = [returned EXCEPT ![d] = "None"]
       ELSE /\ wpc' = [wpc EXCEPT ![d] = "mark"]
            /\ UNCHANGED returned
    /\ UNCHANGED <<wmsg, processed, ttlElapsed, sent>>
    /\ UNCHANGED notDedup

\* a process_message that goes on without setting the dedup key
MarkNothing(d) ==
    /\ wpc[d] = "mark"
    /\ wpc' = [wpc EXCEPT ![d] = "respond"]
    /\ UNCHANGED <<wmsg, processed, ttlElapsed, sent, returned>>
    /\ UNCHANGED notDedup

\* lines 314-321 and 541: redis SETEX with the dedup TTL
MarkMessageProcessed(d) ==
    /\ wpc[d] = "mark"
    /\ processed' = processed \cup {wmsg[d]}
    /\ wpc' = [wpc EXCEPT ![d] = "respond"]
    /\ UNCHANGED <<wmsg, ttlElapsed, sent, returned>>
    /\ UNCHANGED notDedup

\* lines 543-600: the reply is produced, stored and sent
Respond(d) ==
    /\ wpc[d] = "respond"
    /\ sent' = [sent EXCEPT ![wmsg[d]] = @ + 1]
    /\ returned' = [returned EXCEPT ![d] = "reply"]
    /\ wpc' = [wpc EXCEPT ![d] = "done"]
    /\ UNCHANGED <<wmsg, processed, ttlElapsed>>
    /\ UNCHANGED notDedup

\* lines 543-598 raise before the reply is sent (the database, the read
\* receipt or the send fails); receive_webhook logs the exception and goes on
\* (webhook lines 186-191)
ProcessingFails(d) ==
    /\ wpc[d] = "respond"
    /\ returned' = [returned EXCEPT ![d] = "raised"]
    /\ wpc' = [wpc EXCEPT ![d] = "done"]
    /\ UNCHANGED <<wmsg, processed, ttlElapsed, sent>>
    /\ UNCHANGED notDedup

\* a delivery that arrives when no other is in progress
DeliverAlone(d, m) ==
    /\ \A other \in Deliveries : wpc[other] \in {"idle", "done"}
    /\ Deliver(d, m)

\* redis drops the key MESSAGE_DEDUP_TTL_SECONDS after it was set
DedupKeyExpires(m) ==
    /\ m \in processed
    /\ processed' = processed \ {m}
    /\ ttlElapsed' = ttlElapsed \cup {m}
    /\ UNCHANGED <<wpc, wmsg, sent, returned>>
    /\ UNCHANGED notDedup

-----------------------------------------------------------------------------
(* app/api/webhooks/bolna.py, exotel.py, chicx.py: call webhooks            *)

\* Number of webhook deliveries (Bolna and Exotel) in one behaviour of SpecVoice
MaxEvents == 3

\* Number of call-complete deliveries in one behaviour of SpecConfirm
MaxConfirmationCalls == 2

\* Number of call-complete deliveries in one behaviour of SpecClassify
MaxClassifierCalls == 1

\* Webhook requests in progress at one time
Workers == {"w1", "w2"}

BolnaCallIds   == {"b1", "b2"}
ExotelCallSids == {"e1"}
Orders         == {"ORD1", "ORD2"}

\* SQL NULL in a correlation-key column
NullId == "NULL"

\* the Bolna call placed by make_outbound_call to confirm order o
ConfirmationCallOf(o) == IF o = "ORD1" THEN "b1" ELSE "b2"

\* the Exotel CallSid of the telephony leg of Bolna call b
TelephonySidOf(b) == IF b = "b1" THEN "e1" ELSE "e2"

\* --- text ------------------------------------------------------------------
UpperCase == <<"A", "B", "C", "D", "E", "F", "G", "H", "I", "J", "K", "L", "M", "N", "O", "P", "Q", "R", "S", "T", "U", "V", "W", "X", "Y", "Z">>
LowerCase == <<"a", "b", "c", "d", "e", "f", "g", "h", "i", "j", "k", "l", "m", "n", "o", "p", "q", "r", "s", "t", "u", "v", "w", "x", "y", "z">>

\* str.lower() on one character
LowerChar(c) ==
    IF \E i \in 1..Len(UpperCase) : UpperCase[i] = c
    THEN LowerCase[CHOOSE i \in 1..Len(UpperCase) : UpperCase[i] = c]
    ELSE c

\* str.lower()
Lower(s) == [i \in 1..Len(s) |-> LowerChar(s[i])]

\* kw in s
Contains(s, kw) ==
    \E i \in 0..(Len(s) - Len(kw)) : SubSeq(s, i + 1, i + Len(kw)) = kw

\* --- status tables ---------------------------------------------------------
S_completed   == <<"c", "o", "m", "p", "l", "e", "t", "e", "d">>
S_resolved    == <<"r", "e", "s", "o", "l", "v", "e", "d">>
S_escalated   == <<"e", "s", "c", "a", "l", "a", "t", "e", "d">>
S_transferred == <<"t", "r", "a", "n", "s", "f", "e", "r", "r", "e", "d">>
S_failed      == <<"f", "a", "i", "l", "e", "d">>
S_error       == <<"e", "r", "r", "o", "r">>
S_missed      == <<"m", "i", "s", "s", "e", "d">>
S_no_answer   == <<"n", "o", "-", "a", "n", "s", "w", "e", "r">>
S_busy        == <<"b", "u", "s", "y">>
S_canceled    == <<"c", "a", "n", "c", "e", "l", "e", "d">>

\* bolna.py lines 250-261: status_map.get(payload.status.lower(), RESOLVED)
BolnaCallStatus(status) ==
    LET st == Lower(status)
    IN  IF st \in {S_completed, S_resolved} THEN "RESOLVED"
        ELSE IF st \in {S_escalated, S_transferred} THEN "ESCALATED"
        ELSE IF st \in {S_failed, S_error} THEN "FAILED"
        ELSE IF st \in {S_missed, S_no_answer, S_busy} THEN "MISSED"
        ELSE "RESOLVED"

\* exotel.py lines 31-37 and 113-126: EXOTEL_STATUS_MAP.get(status.lower(), FAILED),
\* ESCALATED when the call was bridged to another number
ExotelCallStatus(e) ==
    LET st == Lower(e.Status)
    IN  IF ~Falsy(e.DialWhomNumber) THEN "ESCALATED"
        ELSE IF st = S_completed THEN "RESOLVED"
        ELSE IF st \in {S_busy, S_no_answer, S_canceled} THEN "MISSED"
        ELSE IF st = S_failed THEN "FAILED"
        ELSE "FAILED"

\* bolna.py lines 598-602: the module's own normalize_phone
bolna_normalize_phone(phone) ==
    IF Falsy(phone) THEN <<>>
    ELSE Strip(RemoveChar(RemoveChar(LStripChar(phone, "+"), " "), "-"))

\* exotel.py lines 233-237: the module's own normalize_phone
exotel_normalize_phone(phone) ==
    IF Falsy(phone) THEN <<>>
    ELSE Strip(LStripChar(phone, "+"))

\* --- confirmation classifier (bolna.py lines 686-717) ------------------------
positive_keywords ==
    { <<"y", "e", "s">>,
      <<"c", "o", "n", "f", "i", "r", "m">>,
      <<"h", "a", "a", "n">>,
      <<"t", "h", "e", "e", "k">>,
      <<"o", "k">>,
      <<"o", "k", "a", "y">>,
      <<"p", "r", "o", "c", "e", "e", "d">>,
      <<"c", "o", "r", "r", "e", "c", "t">>,
      <<"s", "u", "r", "e">> }
negative_keywords ==
    { <<"n", "o">>,
      <<"c", "a", "n", "c", "e", "l">>,
      <<"n", "a", "h", "i">>,
      <<"w", "r", "o", "n", "g">>,
      <<"i", "n", "c", "o", "r", "r", "e", "c", "t">>,
      <<"s", "t", "o", "p">>,
      <<"r", "e", "j", "e", "c", "t">> }

positive_count(tr) == Cardinality({kw \in positive_keywords : Contains(Lower(tr), kw)})
negative_count(tr) == Cardinality({kw \in negative_keywords : Contains(Lower(tr), kw)})

\* a list of statuses that leaves out busy
NotAnsweredWithoutBusy == {S_missed, S_no_answer, S_failed}

\* line 690: status in ("missed", "no-answer", "busy", "failed")
NotAnsweredStatuses == {S_missed, S_no_answer, S_busy, S_failed}

\* a comparison that lets a tie confirm
OutnumbersOrTies(p, n) == p >= n

\* line 706: positive_count > negative_count
Outnumbers(p, n) == p > n

\* the outcome computed for one pending entry: order id, confirmed, notes
ConfirmationOutcome(oid, transcript, status) ==
    IF status \in NotAnsweredStatuses
    THEN [order_id |-> oid, confirmed |-> FALSE, notes |-> <<"Call not answered: ", status>>]
    ELSE IF ~Falsy(transcript)
    THEN IF Outnumbers(positive_count(transcript), negative_count(transcript))
         THEN [order_id |-> oid, confirmed |-> TRUE,
               notes |-> <<"Customer confirmed order via voice call">>]
         ELSE IF negative_count(transcript) > 0
         THEN [order_id |-> oid, confirmed |-> FALSE,
               notes |-> <<"Customer rejected/cancelled order via voice call">>]
         ELSE [order_id |-> oid, confirmed |-> FALSE, notes |-> <<"Customer response unclear">>]
    ELSE [order_id |-> oid, confirmed |-> FALSE, notes |-> <<"No transcript available">>]

\* --- payloads --------------------------------------------------------------
PhoneP  == <<"+", "9", "8">>
PhoneQ  == <<"9", "7", " ", "1">>
TextYes == <<"y", "e", "s">>

\* transcripts and a status spelling for the confirmation classifier
TextNo == <<"n", "o">>
TextYesNo == <<"y", "e", "s", " ", "n", "o">>
TextHello == <<"h", "e", "l", "l", "o">>
TextYesConfirmNo == <<"y", "e", "s", " ", "c", "o", "n", "f", "i", "r", "m", " ", "n", "o">>
TextYesUpper == <<"Y", "E", "S">>
TextOkayNo == <<"o", "k", "a", "y", " ", "n", "o">>
TextIncorrect == <<"i", "n", "c", "o", "r", "r", "e", "c", "t">>
TextKnow == <<"i", " ", "k", "n", "o", "w">>
TextNoCancelYes == <<"n", "o", " ", "c", "a", "n", "c", "e", "l", " ", "y", "e", "s">>
TextYesYesNo == <<"y", "e", "s", " ", "y", "e", "s", " ", "n", "o">>
S_Missed == <<"M", "i", "s", "s", "e", "d">>

\* CallCompletePayload (bolna.py lines 76-95)
CallComplete(id, status, transcript, phone) ==
    [kind |-> "call_complete", call_id |-> id, status |-> status,
     transcript |-> transcript, user_phone |-> phone,
     from_number |-> None, telephony_from |-> None,
     duration_seconds |-> {}, language |-> None, recording_url |-> None,
     telephony_call_duration |-> {}, telephony_recording_url |-> None]

\* a call-complete event with a duration, a language and a recording URL, each
\* of which may be absent (an absent int is {}, an absent str is None)
CallCompleteWith(id, duration, language, recording_url) ==
    [CallComplete(id, S_completed, None, PhoneP) EXCEPT
        !.duration_seconds = duration, !.language = language,
        !.recording_url = recording_url]

\* TranscriptPayload (bolna.py lines 51-56)
Transcript(id, text) ==
    [kind |-> "transcript", call_id |-> id, transcript |-> text, language |-> None]

\* the form fields of an Exotel status webhook (exotel.py lines 105-118)
ExotelStatus(sid, from, status) ==
    [kind |-> "exotel", CallSid |-> sid, From |-> from, To |-> <<>>,
     Direction |-> "inbound", Status |-> status, DialWhomNumber |-> None,
     RecordingUrl |-> None, Duration |-> None]

\* an Exotel status webhook with a Duration and a RecordingUrl form field
ExotelStatusWith(sid, duration, recording_url) ==
    [ExotelStatus(sid, PhoneP, S_completed) EXCEPT
        !.Duration = duration, !.RecordingUrl = recording_url]

\* deliveries of the call-correlation scenarios
CorrelationPayloads ==
    {CallComplete("b1", S_completed, TextYes, p) : p \in {None, PhoneP}}
    \cup {CallComplete("b1", S_missed, None, p) : p \in {None, PhoneP}}
    \cup {CallComplete("b2", S_completed, None, PhoneP)}
    \cup {Transcript("b1", TextYes)}
    \cup {ExotelStatus(sid, PhoneP, S_completed) : sid \in ExotelCallSids}

\* deliveries of the order-confirmation scenarios
ConfirmationPayloads ==
    {CallComplete("b1", S_completed, TextYes, PhoneP),
     CallComplete("b1", S_missed, TextYes, PhoneP),
     CallComplete("b2", S_completed, None, PhoneQ)}

\* what a confirmation call can end with: every transcript for a completed
\* call, three transcripts for every other status, and a completed call whose
\* payload names no caller
ClassifierTranscripts ==
    {None, <<>>, TextYes, TextNo, TextYesNo, TextHello, TextYesConfirmNo, TextYesUpper,
     TextOkayNo, TextIncorrect, TextKnow, TextNoCancelYes, TextYesYesNo}

ClassifierStatuses ==
    {S_completed, S_missed, S_no_answer, S_busy, S_failed, S_error, S_canceled, S_Missed}

ClassifierPayloads ==
    {CallComplete("b1", S_completed, tr, PhoneP) : tr \in ClassifierTranscripts}
    \cup {CallComplete("b1", st, tr, PhoneP) :
             st \in ClassifierStatuses, tr \in {None, TextYes, TextNo}}
    \cup {CallComplete("b1", S_completed, TextYes, None)}

\* number of deliveries of the event-order scenarios
MaxOrderedEvents == 2

\* deliveries of the event-order scenarios: call-complete events that carry a
\* phone number and no transcript text, and transcript events
OrderedPayloads ==
    {CallComplete(b, st, None, p) :
        b \in BolnaCallIds, st \in {S_completed, S_missed, S_Missed, S_canceled},
        p \in {PhoneP, PhoneQ}}
    \cup {Transcript(b, t) : b \in BolnaCallIds, t \in {TextYes, TextNo}}

\* number of deliveries of the field-update scenarios
MaxFieldEvents == 2

LangEn == <<"e", "n">>
LangTa == <<"t", "a">>
UrlA == <<"u", "r", "l", "A">>
UrlB == <<"u", "r", "l", "B">>
Text45 == <<" ", "4", "5">>
Text0 == <<"0">>
TextSoon == <<"s", "o", "o", "n">>

\* deliveries of the field-update scenarios
FieldPayloads ==
    {CallCompleteWith("b1", d, l, u) :
        d \in {{}, {0}, {30}}, l \in {None, LangEn, LangTa}, u \in {None, UrlA}}
    \cup {[CallCompleteWith("b1", {}, None, None) EXCEPT
              !.telephony_call_duration = {45}, !.telephony_recording_url = UrlB]}
    \cup {ExotelStatusWith("e1", d, u) :
        d \in {None, Text0, Text45, TextSoon}, u \in {None, UrlB}}

NoEvent == [kind |-> "none"]

\* bolna.py lines 239-242: the recording URL of the payload or of its telephony data
CallCompleteRecordingUrl(e) ==
    IF Falsy(e.recording_url) THEN e.telephony_recording_url ELSE e.recording_url

\* an int | None that Python takes for false
FalsyInt(d) == d = {} \/ d = {0}

\* bolna.py lines 244-247: the duration of the payload or of its telephony data
CallCompleteDuration(e) ==
    IF FalsyInt(e.duration_seconds) /\ ~FalsyInt(e.telephony_call_duration)
    THEN e.telephony_call_duration
    ELSE e.duration_seconds

DigitSeq == <<"0", "1", "2", "3", "4", "5", "6", "7", "8", "9">>

RECURSIVE DigitsValue(_)
DigitsValue(s) ==
    IF s = <<>> THEN 0
    ELSE 10 * DigitsValue(SubSeq(s, 1, Len(s) - 1))
         + (CHOOSE i \in 0..9 : DigitSeq[i + 1] = s[Len(s)])

\* exotel.py lines 240-247: int() of the field (blanks around it and a sign
\* before it allowed), None for no field and for a field that is no number
parse_duration(duration_str) ==
    IF Falsy(duration_str) THEN {}
    ELSE LET t == Strip(duration_str)
             signed == Len(t) > 0 /\ t[1] \in {"+", "-"}
             digits == IF signed THEN SubSeq(t, 2, Len(t)) ELSE t
         IN  IF ~IsDigit(digits) THEN {}
             ELSE IF signed /\ t[1] = "-" THEN {0 - DigitsValue(digits)}
             ELSE {DigitsValue(digits)}

\* a handler that files calls without a caller number under a placeholder
CallCompletePhoneOrUnknown(e) ==
    LET raw == Or(Or(e.user_phone, e.from_number), e.telephony_from)
    IN  IF Falsy(raw) THEN <<"unknown">> ELSE bolna_normalize_phone(raw)

\* bolna.py lines 231-237: the caller's number, normalized
CallCompletePhone(e) ==
    LET raw == Or(Or(e.user_phone, e.from_number), e.telephony_from)
    IN  IF Falsy(raw) THEN raw ELSE bolna_normalize_phone(raw)

\* exotel.py lines 111-130: From for an inbound call, To otherwise
ExotelCustomerPhone(e) ==
    IF e.Direction = "inbound"
    THEN exotel_normalize_phone(e.From)
    ELSE exotel_normalize_phone(e.To)

CustomerPhone(e) ==
    IF e.kind = "call_complete" THEN CallCompletePhone(e) ELSE ExotelCustomerPhone(e)

\* --- persistence -----------------------------------------------------------
EmptyTx == [users |-> {}, convs |-> {}, calls |-> {}, upd |-> {}, tr |-> {}]

\* a lookup that ignores the call id it is given
find_call_none(id) == {}

\* bolna.py lines 587-595: select(Call).where(Call.bolna_call_id == id)
find_call(id) == {c \in calls : c.bolna_call_id = id}

\* exotel.py lines 134-137: select(Call).where(Call.exotel_call_id == call_sid)
find_call_by_sid(sid) == {c \in calls : c.exotel_call_id = sid}

\* a calls table without unique indexes
NoKeyClash(r, c) == FALSE

\* models/voice.py lines 45-50: unique=True on exotel_call_id and bolna_call_id
KeyClash(r, c) ==
    \/ r.bolna_call_id # NullId /\ r.bolna_call_id = c.bolna_call_id
    \/ r.exotel_call_id # NullId /\ r.exotel_call_id = c.exotel_call_id

\* the row is refused: a committed row holds one of its keys
ClashesCommitted(r) == \E c \in calls : KeyClash(r, c)

\* the insert has to wait: a row another session has flushed but not yet
\* committed holds one of its keys
ClashesUncommitted(w, r) ==
    \E v \in Workers \ {w} : \E c \in vtx[v].calls : c.flushed /\ KeyClash(r, c.row)

\* the columns of a row of table calls
CallRow(id, phone, sid, bid, status, conv) ==
    [id |-> id, phone |-> phone, exotel_call_id |-> sid, bolna_call_id |-> bid,
     status |-> status, conversation_id |-> conv,
     duration_seconds |-> {}, language |-> None, recording_url |-> None]

\* an assignment that is made whatever the condition
WriteAlways(cond, v) == {v}

\* "if x: call.field = x": the value assigned to a column, if any
WriteIf(cond, v) == IF cond THEN {v} ELSE {}

\* the assignments to the columns of row id that a handler makes
CallUpdate(id, status, duration, language, recording_url) ==
    [id |-> id, status |-> status, duration_seconds |-> duration,
     language |-> language, recording_url |-> recording_url]

\* the value of a column after an UPDATE that may assign it
Written(old, assigned) == IF assigned = {} THEN old ELSE CHOOSE v \in assigned : TRUE

\* UPDATE calls SET status = ... WHERE id = ...
ApplyUpdates(rows, upd) ==
    {IF \E u \in upd : u.id = c.id
     THEN LET u == CHOOSE u \in upd : u.id = c.id
          IN  [c EXCEPT !.status = Written(@, u.status),
                        !.duration_seconds = Written(@, u.duration_seconds),
                        !.language = Written(@, u.language),
                        !.recording_url = Written(@, u.recording_url)]
     ELSE c : c \in rows}

\* the upsert of a call_transcripts row
ApplyTranscripts(rows, tr) ==
    {t \in rows : ~\E n \in tr : n.call_id = t.call_id}
    \cup {[call_id |-> n.call_id, transcript |-> n.transcript] : n \in tr}

Active(w) == vpc[w] \notin {"idle", "done"}

WorkerBefore(v, w) == v = "w1" /\ w = "w2"

InitVoice ==
    /\ vpc = [w \in Workers |-> "idle"]
    /\ vev = [w \in Workers |-> NoEvent]
    /\ vreq = [w \in Workers |-> 0]
    /\ vcall = [w \in Workers |-> {}]
    /\ vtx = [w \in Workers |-> EmptyTx]
    /\ vkeys = [w \in Workers |-> {}]
    /\ vkey = [w \in Workers |-> ""]
    /\ voutcome = [w \in Workers |-> {}]
    /\ vret = [w \in Workers |-> ""]
    /\ vreplay = [w \in Workers |-> FALSE]
    /\ voverlap = [w \in Workers |-> FALSE]
    /\ calls = {}
    /\ users = {}
    /\ conversations = {}
    /\ transcripts = {}
    /\ pending = {}
    /\ requested = {}
    /\ outbound = [o \in Orders |-> NullId]
    /\ notifications = <<>>
    /\ resolved = {}
    /\ started = 0

IdleVoice ==
    /\ vpc = <<>>
    /\ vev = <<>>
    /\ vreq = <<>>
    /\ vcall = <<>>
    /\ vtx = <<>>
    /\ vkeys = <<>>
    /\ vkey = <<>>
    /\ voutcome = <<>>
    /\ vret = <<>>
    /\ vreplay = <<>>
    /\ voverlap = <<>>
    /\ calls = {}
    /\ users = {}
    /\ conversations = {}
    /\ transcripts = {}
    /\ pending = {}
    /\ requested = {}
    /\ outbound = <<>>
    /\ notifications = <<>>
    /\ resolved = {}
    /\ started = 0

\* first position of the handler of a payload
EntryPoint(e) ==
    CASE e.kind = "call_complete" -> "cc_find"
      [] e.kind = "transcript"    -> "t_find"
      [] e.kind = "exotel"        -> "x_find"

\* A webhook request arrives and worker w begins its handler with a new
\* session; limit bounds the number of deliveries.
Serve(w, e, limit) ==
    /\ ~Active(w)
    /\ started < limit
    /\ started' = started + 1
    /\ vpc' = [vpc EXCEPT ![w] = EntryPoint(e)]
    /\ vev' = [vev EXCEPT ![w] = e]
    /\ vreq' = [vreq EXCEPT ![w] = started + 1]
    /\ vcall' = [vcall EXCEPT ![w] = {}]
    /\ vtx' = [vtx EXCEPT ![w] = EmptyTx]
    /\ vkeys' = [vkeys EXCEPT ![w] = {}]
    /\ vkey' = [vkey EXCEPT ![w] = ""]
    /\ voutcome' = [voutcome EXCEPT ![w] = {}]
    /\ vret' = [vret EXCEPT ![w] = ""]
    /\ vreplay' = [vreplay EXCEPT ![w] = e.kind = "call_complete" /\ e.call_id \in resolved]
    /\ voverlap' = [v \in Workers |->
                      IF v = w THEN \E u \in Workers \ {w} : Active(u)
                      ELSE IF Active(v) THEN TRUE ELSE voverlap[v]]
    /\ UNCHANGED <<dbVars, redisVars>>
    /\ UNCHANGED notVoice

\* The request is served by the first free worker (which worker serves it has no
\* effect on the handlers).
Receive(w, e, limit) ==
    /\ \A v \in Workers : WorkerBefore(v, w) => Active(v)
    /\ Serve(w, e, limit)

\* session.py lines 33-35: the exception leaves the handler, the session rolls back
Raised(w) ==
    /\ vtx' = [vtx EXCEPT ![w] = EmptyTx]
    /\ vret' = [vret EXCEPT ![w] = "raised"]
    /\ vpc' = [vpc EXCEPT ![w] = "done"]

\* bolna.py lines 263-282: find_call, then update in place, give up or go on to create
CallCompleteFind(w) ==
    /\ vpc[w] = "cc_find"
    /\ LET e == vev[w]
           found == find_call(e.call_id)
       IN  IF found # {}
           THEN /\ vcall' = [vcall EXCEPT ![w] = found]
                /\ vtx' = [vtx EXCEPT ![w].upd =
                             {CallUpdate(c.id, {BolnaCallStatus(e.status)},
                                  WriteIf(~FalsyInt(CallCompleteDuration(e)),
                                          CallCompleteDuration(e)),
                                  WriteIf(~Falsy(e.language), e.language),
                                  WriteIf(~Falsy(CallCompleteRecordingUrl(e)),
                                          CallCompleteRecordingUrl(e))) : c \in found}]
                /\ vpc' = [vpc EXCEPT ![w] = "cc_transcript"]
                /\ UNCHANGED vret
           ELSE IF Falsy(CallCompletePhone(e))
           THEN /\ vret' = [vret EXCEPT ![w] = "missing_phone_number"]
                /\ vpc' = [vpc EXCEPT ![w] = "done"]
                /\ UNCHANGED <<vcall, vtx>>
           ELSE /\ vpc' = [vpc EXCEPT ![w] = "get_user"]
                /\ UNCHANGED <<vcall, vtx, vret>>
    /\ UNCHANGED <<vev, vreq, vkeys, vkey, voutcome, vreplay, voverlap>>
    /\ UNCHANGED <<dbVars, redisVars, started>>
    /\ UNCHANGED notVoice

\* where a handler goes on after get_or_create_user
AfterUser(e) == IF e.kind = "call_complete" THEN "cc_add_call" ELSE "x_add_call"

\* get_or_create_user (bolna.py lines 605-611, exotel.py lines 273-279): the select
GetUser(w) ==
    /\ vpc[w] = "get_user"
    /\ vpc' = [vpc EXCEPT ![w] =
                 IF CustomerPhone(vev[w]) \in users THEN AfterUser(vev[w]) ELSE "add_user"]
    /\ UNCHANGED <<vev, vreq, vcall, vtx, vkeys, vkey, voutcome, vret, vreplay, voverlap>>
    /\ UNCHANGED <<dbVars, redisVars, started>>
    /\ UNCHANGED notVoice

\* get_or_create_user (bolna.py lines 612-618, exotel.py lines 280-286): the insert
\* and flush; users.phone is unique, so the insert waits for a session that has
\* inserted the same phone and fails once that phone is committed
AddUser(w) ==
    /\ vpc[w] = "add_user"
    /\ LET p == CustomerPhone(vev[w])
       IN  /\ \A v \in Workers \ {w} : p \notin vtx[v].users
           /\ IF p \in users
              THEN Raised(w)
              ELSE /\ vtx' = [vtx EXCEPT ![w].users = @ \cup {p}]
                   /\ vpc' = [vpc EXCEPT ![w] = AfterUser(vev[w])]
                   /\ UNCHANGED vret
    /\ UNCHANGED <<vev, vreq, vcall, vkeys, vkey, voutcome, vreplay, voverlap>>
    /\ UNCHANGED <<dbVars, redisVars, started>>
    /\ UNCHANGED notVoice

\* bolna.py lines 287-315: the conversation and the new Call row, each flushed
CallCompleteAddCall(w) ==
    /\ vpc[w] = "cc_add_call"
    /\ LET e == vev[w]
           row == [CallRow(vreq[w], CallCompletePhone(e), NullId, e.call_id,
                           BolnaCallStatus(e.status), vreq[w]) EXCEPT
                      !.duration_seconds = CallCompleteDuration(e),
                      !.language = e.language,
                      !.recording_url = CallCompleteRecordingUrl(e)]
       IN  /\ ~ClashesUncommitted(w, row)
           /\ IF ClashesCommitted(row)
              THEN /\ Raised(w)
                   /\ UNCHANGED vcall
              ELSE /\ vtx' = [vtx EXCEPT ![w].convs = @ \cup {vreq[w]},
                                         ![w].calls = @ \cup {[row |-> row, flushed |-> TRUE]}]
                   /\ vcall' = [vcall EXCEPT ![w] = {row}]
                   /\ vpc' = [vpc EXCEPT ![w] = "cc_transcript"]
                   /\ UNCHANGED vret
    /\ UNCHANGED <<vev, vreq, vkeys, vkey, voutcome, vreplay, voverlap>>
    /\ UNCHANGED <<dbVars, redisVars, started>>
    /\ UNCHANGED notVoice

\* the transcript upsert shared by handle_call_complete (lines 324-338) and
\* handle_transcript (lines 128-146)
TranscriptUpsert(c, text) ==
    {[call_id |-> c.id, transcript |-> text,
      insert |-> ~\E t \in transcripts : t.call_id = c.id]}

\* bolna.py lines 317-338: the final transcript, when the payload carries one
CallCompleteTranscript(w) ==
    /\ vpc[w] = "cc_transcript"
    /\ LET e == vev[w]
           c == CHOOSE c \in vcall[w] : TRUE
       IN  vtx' = [vtx EXCEPT ![w].tr =
                     IF Falsy(e.transcript) THEN {} ELSE TranscriptUpsert(c, e.transcript)]
    /\ vpc' = [vpc EXCEPT ![w] = "pcc_keys"]
    /\ UNCHANGED <<vev, vreq, vcall, vkeys, vkey, voutcome, vret, vreplay, voverlap>>
    /\ UNCHANGED <<dbVars, redisVars, started>>
    /\ UNCHANGED notVoice

\* bolna.py lines 667-670: redis KEYS pending_confirmation:*
ConfirmationKeys(w) ==
    /\ vpc[w] = "pcc_keys"
    /\ vkeys' = [vkeys EXCEPT ![w] = pending]
    /\ vpc' = [vpc EXCEPT ![w] = IF pending = {} THEN "commit" ELSE "pcc_get"]
    /\ UNCHANGED <<vev, vreq, vcall, vtx, vkey, voutcome, vret, vreplay, voverlap>>
    /\ UNCHANGED <<dbVars, redisVars, started>>
    /\ UNCHANGED notVoice

\* bolna.py lines 673-684 and 740: redis GET of the next key, in the order KEYS
\* gave them (any order); a key that is gone is skipped, and the first entry
\* read is taken, whichever call it was created for
ConfirmationGet(w, k) ==
    /\ vpc[w] = "pcc_get"
    /\ k \in vkeys[w]
    /\ vkeys' = [vkeys EXCEPT ![w] = IF k \in pending THEN {} ELSE @ \ {k}]
    /\ IF k \in pending
       THEN /\ vkey' = [vkey EXCEPT ![w] = k]
            /\ vpc' = [vpc EXCEPT ![w] = "pcc_confirm"]
       ELSE /\ vpc' = [vpc EXCEPT ![w] = IF vkeys[w] = {k} THEN "commit" ELSE "pcc_get"]
            /\ UNCHANGED vkey
    /\ UNCHANGED <<vev, vreq, vcall, vtx, voutcome, vret, vreplay, voverlap>>
    /\ UNCHANGED <<dbVars, redisVars, started>>
    /\ UNCHANGED notVoice

\* bolna.py lines 686-729: the outcome is computed and confirm_order is called;
\* a failure of the call is logged and swallowed
ConfirmationNotify(w, ok) ==
    /\ vpc[w] = "pcc_confirm"
    /\ LET e == vev[w]
           out == ConfirmationOutcome(vkey[w], e.transcript, e.status)
       IN  notifications' = Append(notifications,
               [order_id |-> out.order_id, confirmed |-> out.confirmed,
                notes |-> out.notes, call_id |-> e.call_id, delivered |-> ok])
    /\ vpc' = [vpc EXCEPT ![w] = "pcc_delete"]
    /\ UNCHANGED <<vev, vreq, vcall, vtx, vkeys, vkey, voutcome, vret, vreplay, voverlap>>
    /\ UNCHANGED <<dbVars, pending, requested, outbound, resolved, started>>
    /\ UNCHANGED notVoice

\* a resolution that keeps the entry, and returns nothing, when confirm_order
\* raised
ConfirmationKeepOnFailure(w) ==
    /\ vpc[w] = "pcc_delete"
    /\ LET delivered_ok == notifications[Len(notifications)].delivered
       IN  /\ pending' = IF delivered_ok THEN pending \ {vkey[w]} ELSE pending
           /\ voutcome' = [voutcome EXCEPT ![w] =
                 IF delivered_ok
                 THEN {ConfirmationOutcome(vkey[w], vev[w].transcript, vev[w].status)}
                 ELSE {}]
    /\ resolved' = resolved \cup {vev[w].call_id}
    /\ vpc' = [vpc EXCEPT ![w] = "commit"]
    /\ UNCHANGED <<vev, vreq, vcall, vtx, vkeys, vkey, vret, vreplay, voverlap>>
    /\ UNCHANGED <<dbVars, requested, outbound, notifications, started>>
    /\ UNCHANGED notVoice

\* bolna.py lines 731-738 and 345-352: redis DEL of the entry, the outcome returned
ConfirmationDelete(w) ==
    /\ vpc[w] = "pcc_delete"
    /\ pending' = pending \ {vkey[w]}
    /\ voutcome' = [voutcome EXCEPT ![w] =
                      {ConfirmationOutcome(vkey[w], vev[w].transcript, vev[w].status)}]
    /\ resolved' = resolved \cup {vev[w].call_id}
    /\ vpc' = [vpc EXCEPT ![w] = "commit"]
    /\ UNCHANGED <<vev, vreq, vcall, vtx, vkeys, vkey, vret, vreplay, voverlap>>
    /\ UNCHANGED <<dbVars, requested, outbound, notifications, started>>
    /\ UNCHANGED notVoice

\* a row this session inserts is refused at commit
CommitRefused(w) ==
    \/ \E r \in vtx[w].calls : ClashesCommitted(r.row)
    \/ \E n \in vtx[w].tr : n.insert /\ \E t \in transcripts : t.call_id = n.call_id

\* db.commit() (bolna.py lines 152 and 354, exotel.py line 183): pending rows are
\* flushed and the session's writes become visible, or the commit is refused
Commit(w) ==
    /\ vpc[w] = "commit"
    /\ \A r \in vtx[w].calls : ~ClashesUncommitted(w, r.row)
    /\ IF CommitRefused(w)
       THEN /\ Raised(w)
            /\ UNCHANGED dbVars
       ELSE /\ users' = users \cup vtx[w].users
            /\ conversations' = conversations \cup vtx[w].convs
            /\ calls' = ApplyUpdates(calls, vtx[w].upd) \cup {r.row : r \in vtx[w].calls}
            /\ transcripts' = ApplyTranscripts(transcripts, vtx[w].tr)
            /\ vtx' = [vtx EXCEPT ![w] = EmptyTx]
            /\ vret' = [vret EXCEPT ![w] = "ok"]
            /\ vpc' = [vpc EXCEPT ![w] = "done"]
    /\ UNCHANGED <<vev, vreq, vcall, vkeys, vkey, voutcome, vreplay, voverlap>>
    /\ UNCHANGED <<redisVars, started>>
    /\ UNCHANGED notVoice

\* bolna.py lines 119-150: handle_transcript up to its commit
TranscriptFind(w) ==
    /\ vpc[w] = "t_find"
    /\ LET e == vev[w]
           found == find_call(e.call_id)
       IN  IF found = {}
           THEN /\ vret' = [vret EXCEPT ![w] = "call_not_found"]
                /\ vpc' = [vpc EXCEPT ![w] = "done"]
                /\ UNCHANGED <<vcall, vtx>>
           ELSE /\ vcall' = [vcall EXCEPT ![w] = found]
                /\ vtx' = [vtx EXCEPT
                             ![w].tr = TranscriptUpsert(CHOOSE c \in found : TRUE, e.transcript),
                             ![w].upd = {CallUpdate(c.id, {}, {},
                                            WriteIf(~Falsy(e.language) /\ Falsy(c.language),
                                                    e.language),
                                            {}) : c \in found}]
                /\ vpc' = [vpc EXCEPT ![w] = "commit"]
                /\ UNCHANGED vret
    /\ UNCHANGED <<vev, vreq, vkeys, vkey, voutcome, vreplay, voverlap>>
    /\ UNCHANGED <<dbVars, redisVars, started>>
    /\ UNCHANGED notVoice

\* exotel.py lines 133-149: the lookup by CallSid and the update of a known call
ExotelFind(w) ==
    /\ vpc[w] = "x_find"
    /\ LET e == vev[w]
           found == find_call_by_sid(e.CallSid)
       IN  IF found # {}
           THEN /\ vcall' = [vcall EXCEPT ![w] = found]
                /\ vtx' = [vtx EXCEPT ![w].upd =
                             {CallUpdate(c.id, {ExotelCallStatus(e)},
                                  WriteIf(~FalsyInt(parse_duration(e.Duration)),
                                          parse_duration(e.Duration)),
                                  {},
                                  WriteIf(~Falsy(e.RecordingUrl), e.RecordingUrl)) : c \in found}]
                /\ vpc' = [vpc EXCEPT ![w] = "commit"]
           ELSE /\ vpc' = [vpc EXCEPT ![w] = "get_user"]
                /\ UNCHANGED <<vcall, vtx>>
    /\ UNCHANGED <<vev, vreq, vkeys, vkey, voutcome, vret, vreplay, voverlap>>
    /\ UNCHANGED <<dbVars, redisVars, started>>
    /\ UNCHANGED notVoice

\* exotel.py lines 155-181: the conversation (flushed) and the new Call row
\* (added to the session, written at commit)
ExotelAddCall(w) ==
    /\ vpc[w] = "x_add_call"
    /\ LET e == vev[w]
           row == [CallRow(vreq[w], ExotelCustomerPhone(e), e.CallSid, NullId,
                           ExotelCallStatus(e), vreq[w]) EXCEPT
                      !.duration_seconds = parse_duration(e.Duration),
                      !.recording_url = e.RecordingUrl]
       IN  /\ vtx' = [vtx EXCEPT ![w].convs = @ \cup {vreq[w]},
                                 ![w].calls = @ \cup {[row |-> row, flushed |-> FALSE]}]
           /\ vcall' = [vcall EXCEPT ![w] = {row}]
    /\ vpc' = [vpc EXCEPT ![w] = "commit"]
    /\ UNCHANGED <<vev, vreq, vkeys, vkey, voutcome, vret, vreplay, voverlap>>
    /\ UNCHANGED <<dbVars, redisVars, started>>
    /\ UNCHANGED notVoice

\* chicx.py lines 672-715: handle_confirm_order stores the pending entry, then
\* places the outbound call, which succeeds (ok) or fails
HandleConfirmOrder(o, ok) ==
    /\ o \notin requested
    /\ requested' = requested \cup {o}
    /\ pending' = pending \cup {o}
    /\ outbound' = [outbound EXCEPT ![o] = IF ok THEN ConfirmationCallOf(o) ELSE NullId]
    /\ UNCHANGED <<notifications, resolved>>
    /\ UNCHANGED <<workerVars, dbVars, started>>
    /\ UNCHANGED notVoice

-----------------------------------------------------------------------------
(* app/services/whatsapp.py: the conversation context store                *)

\* whatsapp.py line 56
CONTEXT_MESSAGE_LIMIT == 20

\* messages of one phone number whose processing may overlap
Messages == {"m1", "m2"}

UserTurn(m) == [role |-> "user", content |-> <<"text of ", m>>]
AssistantTurn(m) == [role |-> "assistant", content |-> <<"reply to ", m>>]

\* messages[-n:]
LastN(list, n) ==
    IF Len(list) <= n THEN list ELSE SubSeq(list, Len(list) - n + 1, Len(list))

\* a store that keeps the first turns it was given
update_keeping_first(local, turn) ==
    IF Len(local) < CONTEXT_MESSAGE_LIMIT THEN Append(local, turn) ELSE local

\* lines 500-502 and 476-482: the turn appended to the list read, the last
\* CONTEXT_MESSAGE_LIMIT turns written back
update_conversation_context(local, turn) ==
    LastN(Append(local, turn), CONTEXT_MESSAGE_LIMIT)

\* number of add_to_context calls made one after another on one key
MaxTurns == 22

\* at most this many of the turns of one key are assistant turns
MaxAssistantTurns == 2

InitContext ==
    /\ xpc = [m \in Messages |-> "idle"]
    /\ xlocal = [m \in Messages |-> <<>>]
    /\ context = <<>>
    /\ appended = <<>>

IdleContext ==
    /\ xpc = <<>>
    /\ xlocal = <<>>
    /\ context = <<>>
    /\ appended = <<>>

\* process_message lines 576-581: _get_llm_response is called for message m
BeginLlmResponse(m) ==
    /\ xpc[m] = "idle"
    /\ xpc' = [xpc EXCEPT ![m] = "get_context"]
    /\ UNCHANGED <<xlocal, context, appended>>
    /\ UNCHANGED notContext

\* lines 618-619 and 452-460: the context is read for the prompt
GetConversationContext(m) ==
    /\ xpc[m] = "get_context"
    /\ xlocal' = [xlocal EXCEPT ![m] = context]
    /\ xpc' = [xpc EXCEPT ![m] = "llm"]
    /\ UNCHANGED <<context, appended>>
    /\ UNCHANGED notContext

\* lines 644-653: chat_with_tools returns a result
LlmReplies(m) ==
    /\ xpc[m] = "llm"
    /\ xpc' = [xpc EXCEPT ![m] = "user_read"]
    /\ UNCHANGED <<xlocal, context, appended>>
    /\ UNCHANGED notContext

\* a failure that is noticed only after the user's turn was stored
LlmRaisesAfterUserTurn(m) ==
    /\ xpc[m] = "llm"
    /\ xpc' = [xpc EXCEPT ![m] = "failed"]
    /\ context' = update_conversation_context(context, UserTurn(m))
    /\ appended' = Append(appended, UserTurn(m))
    /\ UNCHANGED xlocal
    /\ UNCHANGED notContext

\* lines 666-668: chat_with_tools raises, nothing is added to the context
LlmRaises(m) ==
    /\ xpc[m] = "llm"
    /\ xpc' = [xpc EXCEPT ![m] = "failed"]
    /\ UNCHANGED <<xlocal, context, appended>>
    /\ UNCHANGED notContext

\* add_to_context line 500: redis GET of the stored list
AddToContextRead(m) ==
    /\ xpc[m] \in {"user_read", "assistant_read"}
    /\ xlocal' = [xlocal EXCEPT ![m] = context]
    /\ xpc' = [xpc EXCEPT ![m] = IF xpc[m] = "user_read" THEN "user_write"
                                  ELSE "assistant_write"]
    /\ UNCHANGED <<context, appended>>
    /\ UNCHANGED notContext

\* add_to_context lines 501-502: the turn is appended to the list read and the
\* list is written back with SETEX (lines 656 and 657 call it for the user turn
\* and then for the assistant turn)
AddToContextWrite(m) ==
    /\ xpc[m] \in {"user_write", "assistant_write"}
    /\ context' = update_conversation_context(xlocal[m],
                      IF xpc[m] = "user_write" THEN UserTurn(m) ELSE AssistantTurn(m))
    /\ appended' = Append(appended,
                      IF xpc[m] = "user_write" THEN UserTurn(m) ELSE AssistantTurn(m))
    /\ xpc' = [xpc EXCEPT ![m] = IF xpc[m] = "user_write" THEN "assistant_read"
                                  ELSE "done"]
    /\ UNCHANGED xlocal
    /\ UNCHANGED notContext

AssistantTurnsIn(list) == Len(SelectSeq(list, LAMBDA t : t.role = "assistant"))

\* add_to_context lines 484-503, called on a key that no other call is using:
\* the n-th call appends a turn whose content is n
AddToContext(role) ==
    /\ \A m \in Messages : xpc[m] = "idle"
    /\ Len(appended) < MaxTurns
    /\ role = "assistant" => AssistantTurnsIn(appended) < MaxAssistantTurns
    /\ LET turn == [role |-> role, content |-> <<"turn ", Len(appended) + 1>>]
       IN  /\ context' = update_conversation_context(context, turn)
           /\ appended' = Append(appended, turn)
    /\ UNCHANGED <<xpc, xlocal>>
    /\ UNCHANGED notContext

-----------------------------------------------------------------------------
(* app/core/llm.py: chat_completion under its retry decorator              *)

\* number of chat_completion calls made one after another
MaxLlmCalls == 2

\* line 78: stop_after_attempt(3)
STOP_AFTER_ATTEMPT == 3

\* what one POST to the completions endpoint can end with
PostFaults == {"httpx.ConnectError", "httpx.TimeoutException", "http_429", "http_500",
               "invalid_body"}

\* lines 149-155 and 196-206: the exception that leaves the function body for a
\* fault of the POST
BodyRaises(fault) ==
    CASE fault = "httpx.ConnectError"     -> "LLMConnectionError"
      [] fault = "httpx.TimeoutException" -> "LLMConnectionError"
      [] fault = "http_429"               -> "LLMRateLimitError"
      [] fault = "http_500"               -> "LLMError"
      [] fault = "invalid_body"           -> "LLMResponseError"

\* line 77: retry_if_exception_type((httpx.ConnectError, httpx.TimeoutException,
\* LLMRateLimitError)); the LLM error classes (lines 25-42) derive from
\* Exception and from each other only, so none is an instance of an httpx class
RetriedTypes == {"httpx.ConnectError", "httpx.TimeoutException", "LLMRateLimitError"}

retry_if_exception_type(exc) == exc \in RetriedTypes

InitRetry ==
    /\ rpc = "idle"
    /\ rattempt = 0
    /\ rerror = "none"
    /\ rlog = <<>>

IdleRetry ==
    /\ rpc = "idle"
    /\ rattempt = 0
    /\ rerror = "none"
    /\ rlog = <<>>

\* chat_completion is called
BeginChatCompletion ==
    /\ rpc # "attempt"
    /\ Len(rlog) < MaxLlmCalls
    /\ rpc' = "attempt"
    /\ rattempt' = 0
    /\ rerror' = "none"
    /\ UNCHANGED rlog
    /\ UNCHANGED notRetry

\* lines 147-194: the POST answers 200 and the result is returned
AttemptReturns ==
    /\ rpc = "attempt"
    /\ rattempt' = rattempt + 1
    /\ rpc' = "returned"
    /\ rerror' = "none"
    /\ rlog' = Append(rlog, [attempts |-> rattempt + 1, fault |-> "none", raised |-> "none"])
    /\ UNCHANGED notRetry

\* lines 147-155 and 196-206: the POST fails; lines 76-82: the decorator tries
\* again when the exception that left the body is of a retried type and fewer
\* than STOP_AFTER_ATTEMPT attempts were made, and re-raises it otherwise
AttemptRaises(fault) ==
    /\ rpc = "attempt"
    /\ rattempt' = rattempt + 1
    /\ IF retry_if_exception_type(BodyRaises(fault)) /\ rattempt + 1 < STOP_AFTER_ATTEMPT
       THEN /\ rpc' = "attempt"
            /\ UNCHANGED <<rerror, rlog>>
       ELSE /\ rpc' = "raised"
            /\ rerror' = BodyRaises(fault)
            /\ rlog' = Append(rlog, [attempts |-> rattempt + 1, fault |-> fault,
                                     raised |-> BodyRaises(fault)])
    /\ UNCHANGED notRetry

-----------------------------------------------------------------------------
(* app/api/webhooks/bolna.py: handle_tool_call and the execute_* functions *)

\* payload.tool_name: the five tools of the voice agent and a name it has not
VoiceTools == {"search_products", "get_order_status", "get_order_history",
               "search_faq", "track_shipment"}
ToolNames == VoiceTools \cup {"refund_order"}

\* the argument the tool asks for (order_id, query, awb_number) is given or
\* not, the caller's number is known or not
ToolArguments == [given : BOOLEAN, user_phone : {None, PhoneP}]

\* how the collaborator behind the tool behaves: it answers that it has nothing,
\* it fails with the typed error of its client (ChicxAPIError, lines 251-258 of
\* chicx_api.py; ShiprocketAPIError), or it answers 200 with a body that is no
\* JSON, so that response.json() raises a ValueError the client does not catch
\* (chicx_api.py lines 242-243)
ToolFaults == {"nothing", "api_error", "invalid_body"}

\* str(e) of the exception a fault raises
ExceptionText(fault) ==
    IF fault = "api_error" THEN <<"Failed to connect to the API">>
    ELSE <<"Expecting value: line 1 column 1 (char 0)">>

Returns(result) == [raised |-> FALSE, result |-> result]
Raises(fault) == [raised |-> TRUE, text |-> ExceptionText(fault)]

\* an execute_* function whose handler names its client's error only
CatchesApiError(fault, sorry, nothing) ==
    IF fault = "api_error" THEN Returns([message |-> sorry])
    ELSE IF fault = "invalid_body" THEN Raises(fault)
    ELSE Returns([message |-> nothing])

\* an execute_* function whose handler is "except Exception"
CatchesException(fault, sorry, sorryOther, nothing) ==
    IF fault = "api_error" THEN Returns([message |-> sorry])
    ELSE IF fault = "invalid_body" THEN Returns([message |-> sorryOther])
    ELSE Returns([message |-> nothing])

\* lines 365-394
execute_search_products(args, fault) ==
    CatchesApiError(fault,
        <<"Sorry, I couldn't search products right now. Please try again.">>,
        <<"No products found matching your search.">>)

\* lines 397-461, the order of SpecOrder left out: the backend has no such order
execute_order_status_tool(args, fault) ==
    IF ~args.given \/ Falsy(args.user_phone) \/ fault # "invalid_body"
    THEN Returns(execute_get_order_status(IF args.given THEN "ORD1" ELSE "",
                     args.user_phone,
                     [kind |-> IF fault = "api_error" THEN "error" ELSE "none"]))
    ELSE Raises(fault)

\* lines 465-496
execute_get_order_history(args, fault) ==
    IF Falsy(args.user_phone)
    THEN Returns([message |-> <<"I need your phone number to look up your orders.">>])
    ELSE CatchesApiError(fault,
             <<"Sorry, I couldn't get your order history right now. Please try again.">>,
             <<"I don't see any orders for your phone number.">>)

\* lines 499-529
execute_search_faq(args, fault) ==
    IF ~args.given
    THEN Returns([message |-> <<"What would you like to know about?">>])
    ELSE CatchesException(fault,
             <<"Sorry, I couldn't find that information. Please contact support@chicx.in.">>,
             <<"Sorry, I couldn't find that information. Please contact support@chicx.in.">>,
             <<"I don't have specific information about that. ",
               "For detailed help, please contact support at support@chicx.in.">>)

\* lines 532-579
execute_track_shipment(args, fault) ==
    IF ~args.given
    THEN Returns([message |->
             <<"I need the tracking number or AWB number to track your shipment.">>])
    ELSE CatchesException(fault,
             <<"I'm unable to fetch tracking information right now. Please try again later.">>,
             <<"Sorry, I couldn't track that shipment. Please try again.">>,
             <<"I couldn't find any shipment with tracking number ", "AWB1",
               ". Please verify the number.">>)

\* lines 177-189: the dispatch on payload.tool_name
ExecuteByName(name, args, fault) ==
    CASE name = "search_products"   -> execute_search_products(args, fault)
      [] name = "get_order_status"  -> execute_order_status_tool(args, fault)
      [] name = "get_order_history" -> execute_get_order_history(args, fault)
      [] name = "search_faq"        -> execute_search_faq(args, fault)
      [] name = "track_shipment"    -> execute_track_shipment(args, fault)
      [] OTHER -> Returns([error |-> <<"Unknown tool: ", name>>])

InitTool ==
    /\ tpc = "input"
    /\ tool_name \in ToolNames
    /\ tool_args \in ToolArguments
    /\ tool_fault \in ToolFaults
    /\ tool_response = [message |-> <<>>]

IdleTool ==
    /\ tpc = "idle"
    /\ tool_name = ""
    /\ tool_args = [given |-> FALSE, user_phone |-> None]
    /\ tool_fault = "nothing"
    /\ tool_response = [message |-> <<>>]

\* lines 176-189: the tool is executed; its result is kept, or its exception is
\* caught at line 203
ExecuteTool ==
    /\ tpc = "input"
    /\ LET r == ExecuteByName(tool_name, tool_args, tool_fault)
       IN  IF r.raised
           THEN /\ tpc' = "caught"
                /\ tool_response' = [text |-> r.text]
           ELSE /\ tpc' = "executed"
                /\ tool_response' = r.result
    /\ UNCHANGED <<tool_name, tool_args, tool_fault>>
    /\ UNCHANGED notTool

\* lines 191-201: the call is logged and the result is answered
RespondWithResult ==
    /\ tpc = "executed"
    /\ tpc' = "responded"
    /\ tool_response' = [status |-> "ok", result |-> tool_response]
    /\ UNCHANGED <<tool_name, tool_args, tool_fault>>
    /\ UNCHANGED notTool

\* lines 203-214: the failed call is logged and str(e) is answered
RespondWithError ==
    /\ tpc = "caught"
    /\ tpc' = "responded"
    /\ tool_response' = [status |-> "error", error |-> tool_response.text]
    /\ UNCHANGED <<tool_name, tool_args, tool_fault>>
    /\ UNCHANGED notTool

-----------------------------------------------------------------------------
(* app/core/tools.py, ChicxToolExecutor.execute: one tool call of the loop  *)

\* tools.py lines 264-270: TOOL_REQUIRED_PARAMS
TOOL_REQUIRED_PARAMS ==
    [search_products |-> <<>>, get_product_details |-> <<"product_id">>,
     get_order_status |-> <<"order_id">>, get_order_history |-> <<>>,
     search_faq |-> <<"query">>]

\* tool_call.function.name: the five registered tools and one that is not
ChatToolNames == DOMAIN TOOL_REQUIRED_PARAMS \cup {"track_shipment"}

\* tool_call.function.arguments, a string, by what it holds: text that is no
\* JSON, a JSON object (its members given as a function; null is None), the
\* JSON value null, or a JSON array
JsonObject(members) == [json |-> "object", members |-> members]
NoMembers == [k \in {} |-> None]
ArgumentStrings ==
    {[json |-> "invalid"], [json |-> "null"], [json |-> "array"],
     JsonObject(NoMembers),
     JsonObject([product_id |-> <<"P", "1">>]),
     JsonObject([order_id |-> <<"O", "R", "D", "1">>]),
     JsonObject([order_id |-> None]),
     JsonObject([query |-> <<"r", "e", "t", "u", "r", "n", "s">>])}

\* Python values: a dict, None, a list
PyDict(members) == [type |-> "dict", members |-> members]
PyNone == [type |-> "NoneType"]
PyList == [type |-> "list"]

\* llm.py lines 272-275: json.loads, a text that is no JSON giving {}
LoadArguments(text) ==
    CASE text.json = "invalid" -> PyDict(NoMembers)
      [] text.json = "object"  -> PyDict(text.members)
      [] text.json = "null"    -> PyNone
      [] text.json = "array"   -> PyList

\* the parameters of required for which "param not in arguments or
\* arguments[param] is None" holds (tools.py line 297), arguments being a dict
\* or an empty list
MissingParams(required, arguments) ==
    SelectSeq(required,
        LAMBDA param :
            IF arguments.type = "dict"
            THEN param \notin DOMAIN arguments.members
                 \/ arguments.members[param] = None
            ELSE TRUE)

RECURSIVE JoinComma(_)
JoinComma(names) ==
    IF names = <<>> THEN <<>>
    ELSE IF Len(names) = 1 THEN <<names[1]>>
    ELSE <<names[1], ", ">> \o JoinComma(Tail(names))

\* tools.py lines 272-302; "param not in None" raises TypeError as soon as one
\* required parameter is tested
validate_tool_arguments(name, arguments) ==
    IF name \notin DOMAIN TOOL_REQUIRED_PARAMS
    THEN [raised |-> FALSE, valid |-> FALSE, error |-> <<"Unknown tool: ", name>>]
    ELSE IF TOOL_REQUIRED_PARAMS[name] # <<>> /\ arguments.type = "NoneType"
    THEN [raised |-> TRUE, valid |-> FALSE,
          error |-> <<"argument of type 'NoneType' is not iterable">>]
    ELSE LET missing == MissingParams(TOOL_REQUIRED_PARAMS[name], arguments)
         IN  IF missing # <<>>
             THEN [raised |-> FALSE, valid |-> FALSE,
                   error |-> <<"Missing required parameters for ", name, ": ">>
                             \o JoinComma(missing)]
             ELSE [raised |-> FALSE, valid |-> TRUE, error |-> None]

\* whatsapp.py lines 132-209: the handlers, which answer with fixed texts; one
\* that is given no dict fails on args.get and is caught at lines 128-130
HandlerResult(name, arguments) ==
    IF arguments.type # "dict"
    THEN [error |-> <<"Failed to execute ", name, ": '", arguments.type,
                      "' object has no attribute 'get'">>]
    ELSE CASE name = "search_products" ->
                [message |-> <<"Product search is being set up. ",
                               "Please visit chicx.in to browse products.">>]
           [] name = "get_product_details" ->
                [error |-> <<"product_not_found">>,
                 message |-> <<"Product ", arguments.members["product_id"],
                               " not found. Please check the product ID.">>]
           [] name = "get_order_status" ->
                [error |-> <<"order_not_found">>,
                 message |-> <<"Order ", arguments.members["order_id"],
                               " not found. Please check the order ID from your ",
                               "confirmation email.">>]
           [] name = "get_order_history" ->
                [message |-> <<"No orders found for this phone number. ",
                               "Have you made a purchase on chicx.in?">>]
           [] name = "search_faq" ->
                [message |-> <<"For detailed help, please contact support@chicx.in">>]

\* whatsapp.py lines 98-130: validation, then the handler
execute(name, arguments) ==
    LET v == validate_tool_arguments(name, arguments)
    IN  IF v.raised THEN [raised |-> TRUE, invoked |-> FALSE, result |-> [error |-> v.error]]
        ELSE IF ~v.valid THEN [raised |-> FALSE, invoked |-> FALSE, result |-> [error |-> v.error]]
        ELSE [raised |-> FALSE, invoked |-> TRUE, result |-> HandlerResult(name, arguments)]

\* the position of a tool call of the loop is kept in tpc, its name in
\* tool_name, its arguments (the string, then the value loaded from it) in
\* tool_args, and what execute gave, then the tool turn, in tool_response
InitChatTool ==
    /\ tpc = "tool_call"
    /\ tool_name \in ChatToolNames
    /\ tool_args \in ArgumentStrings
    /\ tool_fault = "nothing"
    /\ tool_response = [message |-> <<>>]

\* llm.py lines 271-275
JsonLoads ==
    /\ tpc = "tool_call"
    /\ tool_args' = LoadArguments(tool_args)
    /\ tpc' = "loaded"
    /\ UNCHANGED <<tool_name, tool_fault, tool_response>>
    /\ UNCHANGED notTool

\* llm.py line 280: execute returns, or its exception leaves chat_with_tools
ExecuteChatTool ==
    /\ tpc = "loaded"
    /\ tool_response' = execute(tool_name, tool_args)
    /\ tpc' = IF execute(tool_name, tool_args).raised THEN "raised" ELSE "executed"
    /\ UNCHANGED <<tool_name, tool_args, tool_fault>>
    /\ UNCHANGED notTool

\* llm.py lines 282-293: the tool turn is appended and the loop goes on
AppendToolTurn ==
    /\ tpc = "executed"
    /\ tool_response' = [role |-> "tool", tool_call_id |-> "call_a",
                         content |-> tool_response.result,
                         invoked |-> tool_response.invoked]
    /\ tpc' = "appended"
    /\ UNCHANGED <<tool_name, tool_args, tool_fault>>
    /\ UNCHANGED notTool

-----------------------------------------------------------------------------
(* Specifications                                                          *)

NextOrder == GetOrderStatus

InitSpecOrder == InitOrder /\ IdleLoop /\ IdleDedup /\ IdleVoice /\ IdleContext /\ IdleRetry /\ IdleTool
    /\ IdlePhone /\ IdleShip

SpecOrder == InitSpecOrder /\ [][NextOrder]_vars

NextLoop ==
    \/ \E resp \in Responses : ChatCompletion(resp)
    \/ ChatCompletionRaises
    \/ RunTools
    \/ \E i \in ToolCallPositions : RunToolsRaises(i)
    \/ ReturnFinal
    \/ ReturnAtCap
    \/ GetLlmResponse
    \/ GetConversationContextRaises
    \/ AddToContextRaises
    \/ ReplyApology

InitSpecLoop == IdleOrder /\ InitLoop /\ IdleDedup /\ IdleVoice /\ IdleContext /\ IdleRetry /\ IdleTool
    /\ IdlePhone /\ IdleShip

SpecLoop == InitSpecLoop /\ [][NextLoop]_vars

NextDedup ==
    \/ \E d \in Deliveries, m \in MessageIds : Deliver(d, m)
    \/ \E d \in Deliveries : IsDuplicateMessage(d)
    \/ \E d \in Deliveries : MarkMessageProcessed(d)
    \/ \E d \in Deliveries : Respond(d)
    \/ \E m \in MessageIds : DedupKeyExpires(m)

InitSpecDedup == IdleOrder /\ IdleLoop /\ InitDedup /\ IdleVoice /\ IdleContext /\ IdleRetry /\ IdleTool
    /\ IdlePhone /\ IdleShip

SpecDedup == InitSpecDedup /\ [][NextDedup]_vars

NextVoice ==
    \/ \E w \in Workers, e \in CorrelationPayloads : Receive(w, e, MaxEvents)
    \/ \E w \in Workers : CallCompleteFind(w)
    \/ \E w \in Workers : GetUser(w)
    \/ \E w \in Workers : AddUser(w)
    \/ \E w \in Workers : CallCompleteAddCall(w)
    \/ \E w \in Workers : CallCompleteTranscript(w)
    \/ \E w \in Workers : ConfirmationKeys(w)
    \/ \E w \in Workers : Commit(w)
    \/ \E w \in Workers : TranscriptFind(w)
    \/ \E w \in Workers : ExotelFind(w)
    \/ \E w \in Workers : ExotelAddCall(w)

InitSpecVoice == IdleOrder /\ IdleLoop /\ IdleDedup /\ InitVoice /\ IdleContext /\ IdleRetry /\ IdleTool
    /\ IdlePhone /\ IdleShip

\* Call correlation: no order confirmation is pending.
SpecVoice == InitSpecVoice /\ [][NextVoice]_vars

NextConfirm ==
    \/ \E o \in Orders, ok \in BOOLEAN : HandleConfirmOrder(o, ok)
    \/ \E w \in Workers, e \in ConfirmationPayloads : Receive(w, e, MaxConfirmationCalls)
    \/ \E w \in Workers : CallCompleteFind(w)
    \/ \E w \in Workers : GetUser(w)
    \/ \E w \in Workers : AddUser(w)
    \/ \E w \in Workers : CallCompleteAddCall(w)
    \/ \E w \in Workers : CallCompleteTranscript(w)
    \/ \E w \in Workers : ConfirmationKeys(w)
    \/ \E w \in Workers, k \in Orders : ConfirmationGet(w, k)
    \/ \E w \in Workers, ok \in BOOLEAN : ConfirmationNotify(w, ok)
    \/ \E w \in Workers : ConfirmationDelete(w)
    \/ \E w \in Workers : Commit(w)

\* Order confirmation: /confirm-order requests and the call-complete events
\* that resolve them.
SpecConfirm == InitSpecVoice /\ [][NextConfirm]_vars

\* a webhook request that arrives while no other request is in progress
ReceiveAlone(w, e, limit) ==
    /\ \A v \in Workers : ~Active(v)
    /\ Receive(w, e, limit)

\* a /confirm-order request received before any call has completed
ConfirmOrderFirst(o, ok) ==
    /\ started = 0
    /\ HandleConfirmOrder(o, ok)

NextClassify ==
    \/ \E o \in Orders, ok \in BOOLEAN : ConfirmOrderFirst(o, ok)
    \/ \E w \in Workers, e \in ClassifierPayloads : ReceiveAlone(w, e, MaxClassifierCalls)
    \/ \E w \in Workers : CallCompleteFind(w)
    \/ \E w \in Workers : GetUser(w)
    \/ \E w \in Workers : AddUser(w)
    \/ \E w \in Workers : CallCompleteAddCall(w)
    \/ \E w \in Workers : CallCompleteTranscript(w)
    \/ \E w \in Workers : ConfirmationKeys(w)
    \/ \E w \in Workers, k \in Orders : ConfirmationGet(w, k)
    \/ \E w \in Workers, ok \in BOOLEAN : ConfirmationNotify(w, ok)
    \/ \E w \in Workers : ConfirmationDelete(w)
    \/ \E w \in Workers : Commit(w)

\* the n-th webhook request, served by the n-th worker after the requests
\* before it were answered
ReceiveInTurn(w, e, limit) ==
    /\ \A v \in Workers : ~Active(v)
    /\ w = (IF started = 0 THEN "w1" ELSE "w2")
    /\ Serve(w, e, limit)

NextEventOrder ==
    \/ \E w \in Workers, e \in OrderedPayloads : ReceiveInTurn(w, e, MaxOrderedEvents)
    \/ \E w \in Workers : CallCompleteFind(w)
    \/ \E w \in Workers : GetUser(w)
    \/ \E w \in Workers : AddUser(w)
    \/ \E w \in Workers : CallCompleteAddCall(w)
    \/ \E w \in Workers : CallCompleteTranscript(w)
    \/ \E w \in Workers : ConfirmationKeys(w)
    \/ \E w \in Workers : Commit(w)
    \/ \E w \in Workers : TranscriptFind(w)

\* Two Bolna events delivered one after the other, in either order.
SpecEventOrder == InitSpecVoice /\ [][NextEventOrder]_vars

\* TranscriptPayload with its optional language (models/voice.py)
TranscriptWith(id, text, language) ==
    [Transcript(id, text) EXCEPT !.language = language]

LastWriterPayloads ==
    FieldPayloads \cup {TranscriptWith("b1", TextYes, l) : l \in {None, LangTa}}

NextLastWriter ==
    \/ \E w \in Workers, e \in LastWriterPayloads : ReceiveInTurn(w, e, MaxFieldEvents)
    \/ \E w \in Workers : CallCompleteFind(w)
    \/ \E w \in Workers : GetUser(w)
    \/ \E w \in Workers : AddUser(w)
    \/ \E w \in Workers : CallCompleteAddCall(w)
    \/ \E w \in Workers : CallCompleteTranscript(w)
    \/ \E w \in Workers : ConfirmationKeys(w)
    \/ \E w \in Workers : Commit(w)
    \/ \E w \in Workers : ExotelFind(w)
    \/ \E w \in Workers : ExotelAddCall(w)
    \/ \E w \in Workers : TranscriptFind(w)

\* Call-status and transcript events of one call, one after another.
SpecLastWriter == InitSpecVoice /\ [][NextLastWriter]_vars

\* number of provider events delivered one after another
MaxProviderEvents == 2

\* a provider status that neither status table lists
S_ringing == <<"r", "i", "n", "g", "i", "n", "g">>

\* Exotel status events of one CallSid with and without a customer number, an
\* outbound one whose To is empty, and events of both providers whose status
\* is in no table
ProviderPayloads ==
    {ExotelStatus("e1", from, st) :
        from \in {<<>>, <<"+">>, PhoneP}, st \in {S_completed, S_ringing}}
    \cup {[ExotelStatus("e1", PhoneP, S_completed) EXCEPT !.Direction = "outbound"]}
    \cup {CallComplete("b1", st, None, PhoneP) : st \in {S_completed, S_ringing}}

NextProvider ==
    \/ \E w \in Workers, e \in ProviderPayloads : ReceiveInTurn(w, e, MaxProviderEvents)
    \/ \E w \in Workers : CallCompleteFind(w)
    \/ \E w \in Workers : GetUser(w)
    \/ \E w \in Workers : AddUser(w)
    \/ \E w \in Workers : CallCompleteAddCall(w)
    \/ \E w \in Workers : CallCompleteTranscript(w)
    \/ \E w \in Workers : ConfirmationKeys(w)
    \/ \E w \in Workers : Commit(w)
    \/ \E w \in Workers : ExotelFind(w)
    \/ \E w \in Workers : ExotelAddCall(w)

\* Status events of the two telephony providers, one after another.
SpecProvider == InitSpecVoice /\ [][NextProvider]_vars

\* number of call-complete deliveries made one after another in SpecNotify
MaxNotifyCalls == 2

NextNotify ==
    \/ \E o \in Orders, ok \in BOOLEAN : ConfirmOrderFirst(o, ok)
    \/ \E w \in Workers, e \in ConfirmationPayloads : ReceiveInTurn(w, e, MaxNotifyCalls)
    \/ \E w \in Workers : CallCompleteFind(w)
    \/ \E w \in Workers : GetUser(w)
    \/ \E w \in Workers : AddUser(w)
    \/ \E w \in Workers : CallCompleteAddCall(w)
    \/ \E w \in Workers : CallCompleteTranscript(w)
    \/ \E w \in Workers : ConfirmationKeys(w)
    \/ \E w \in Workers, k \in Orders : ConfirmationGet(w, k)
    \/ \E w \in Workers, ok \in BOOLEAN : ConfirmationNotify(w, ok)
    \/ \E w \in Workers : ConfirmationDelete(w)
    \/ \E w \in Workers : Commit(w)

\* Confirmation calls ending one after another, confirm_order free to fail.
SpecNotify == InitSpecVoice /\ [][NextNotify]_vars

NextRedeliver ==
    \/ \E d \in Deliveries, m \in MessageIds : DeliverAlone(d, m)
    \/ \E d \in Deliveries : IsDuplicateMessage(d)
    \/ \E d \in Deliveries : MarkMessageProcessed(d)
    \/ \E d \in Deliveries : Respond(d)
    \/ \E d \in Deliveries : ProcessingFails(d)
    \/ \E m \in MessageIds : DedupKeyExpires(m)

\* Deliveries of WhatsApp messages one after another, processing free to fail.
SpecRedeliver == InitSpecDedup /\ [][NextRedeliver]_vars

NextFields ==
    \/ \E w \in Workers, e \in FieldPayloads : ReceiveInTurn(w, e, MaxFieldEvents)
    \/ \E w \in Workers : CallCompleteFind(w)
    \/ \E w \in Workers : GetUser(w)
    \/ \E w \in Workers : AddUser(w)
    \/ \E w \in Workers : CallCompleteAddCall(w)
    \/ \E w \in Workers : CallCompleteTranscript(w)
    \/ \E w \in Workers : ConfirmationKeys(w)
    \/ \E w \in Workers : Commit(w)
    \/ \E w \in Workers : ExotelFind(w)
    \/ \E w \in Workers : ExotelAddCall(w)

\* Call-status events of one call that supply or omit the duration, the
\* language and the recording URL.
SpecFields == InitSpecVoice /\ [][NextFields]_vars

\* The confirmation classifier: one call-complete, with any transcript and
\* status, resolves a pending confirmation.
SpecClassify == InitSpecVoice /\ [][NextClassify]_vars

NextContext ==
    \/ \E m \in Messages : BeginLlmResponse(m)
    \/ \E m \in Messages : GetConversationContext(m)
    \/ \E m \in Messages : LlmReplies(m)
    \/ \E m \in Messages : LlmRaises(m)
    \/ \E m \in Messages : AddToContextRead(m)
    \/ \E m \in Messages : AddToContextWrite(m)

InitSpecContext ==
    IdleOrder /\ IdleLoop /\ IdleDedup /\ IdleVoice /\ InitContext /\ IdleRetry /\ IdleTool
    /\ IdlePhone /\ IdleShip

\* Two messages of one phone number processed concurrently.
SpecContext == InitSpecContext /\ [][NextContext]_vars

NextContextCap == \E role \in {"user", "assistant"} : AddToContext(role)

\* add_to_context called again and again on one key, one call at a time.
SpecContextCap == InitSpecContext /\ [][NextContextCap]_vars

NextRetry ==
    \/ BeginChatCompletion
    \/ AttemptReturns
    \/ \E fault \in PostFaults : AttemptRaises(fault)

InitSpecRetry ==
    IdleOrder /\ IdleLoop /\ IdleDedup /\ IdleVoice /\ IdleContext /\ InitRetry /\ IdleTool
    /\ IdlePhone /\ IdleShip

\* chat_completion called MaxLlmCalls times, each POST free to succeed or fail.
SpecRetry == InitSpecRetry /\ [][NextRetry]_vars

NextTool ==
    \/ ExecuteTool
    \/ RespondWithResult
    \/ RespondWithError

InitSpecTool ==
    IdleOrder /\ IdleLoop /\ IdleDedup /\ IdleVoice /\ IdleContext /\ IdleRetry /\ InitTool
    /\ IdlePhone /\ IdleShip

\* One POST /tool of the voice agent, for every tool, arguments and fault.
SpecTool == InitSpecTool /\ [][NextTool]_vars

NextChatTool ==
    \/ JsonLoads
    \/ ExecuteChatTool
    \/ AppendToolTurn

InitSpecChatTool ==
    IdleOrder /\ IdleLoop /\ IdleDedup /\ IdleVoice /\ IdleContext /\ IdleRetry
    /\ InitChatTool
    /\ IdlePhone /\ IdleShip

\* One tool call of the chat loop, for every tool name and arguments string.
SpecChatTool == InitSpecChatTool /\ [][NextChatTool]_vars

NextPhone == NormalizePhone

InitSpecPhone ==
    IdleOrder /\ IdleLoop /\ IdleDedup /\ IdleVoice /\ IdleContext /\ IdleRetry /\ IdleTool
    /\ InitPhone /\ IdleShip

\* normalize_phone applied once, for every written form of five numbers.
SpecPhone == InitSpecPhone /\ [][NextPhone]_vars

NextShip ==
    \/ TrackShipment
    \/ TrackShipmentLoginFails
    \/ CloseShiprocket
    \/ DayPasses

InitSpecShip ==
    IdleOrder /\ IdleLoop /\ IdleDedup /\ IdleVoice /\ IdleContext /\ IdleRetry /\ IdleTool
    /\ IdlePhone /\ InitShip

\* One ShiprocketClient used for tracking calls over three weeks.
SpecShip == InitSpecShip /\ [][NextShip]_vars

NextPhoneTwice == NormalizePhone \/ NormalizeAgain

\* normalize_phone applied to a written form and then to its own result.
SpecPhoneTwice == InitSpecPhone /\ [][NextPhoneTwice]_vars

-----------------------------------------------------------------------------
(* Properties                                                              *)

\* --- SpecDedup --------------------------------------------------------------

\* deliveries of message m that passed the duplicate check
PassedCheck(m) ==
    {d \in Deliveries : wmsg[d] = m /\ (wpc[d] \in {"mark", "respond"} \/ returned[d] = "reply")}

\* C1: within the dedup TTL, of all concurrent deliveries of one message id
\* exactly one passes the duplicate check and sends a reply; every other
\* delivery returns None and sends nothing.
C1_ExactlyOneDeliveryReplies ==
    \A m \in MessageIds :
        m \notin ttlElapsed =>
            /\ Cardinality(PassedCheck(m)) <= 1
            /\ sent[m] <= 1
            /\ \A d \in Deliveries :
                   (wmsg[d] = m /\ wpc[d] = "done") =>
                       /\ PassedCheck(m) # {}
                       /\ (d \notin PassedCheck(m) => returned[d] = "None")

\* C1, the state of the race: two deliveries of one message id have both been
\* answered within the dedup TTL
C1_TwoRepliesSent ==
    \E m \in MessageIds : m \notin ttlElapsed /\ sent[m] >= 2

\* --- SpecVoice --------------------------------------------------------------

RowsOfBolnaId(b) == {c \in calls : c.bolna_call_id = b}
RowsOfExotelId(x) == {c \in calls : c.exotel_call_id = x}

\* worker w has finished a call-complete delivery that carried a phone number
FinishedCallComplete(w) ==
    /\ vpc[w] = "done"
    /\ vev[w].kind = "call_complete"
    /\ ~Falsy(CallCompletePhone(vev[w]))

\* C2: no two Call rows share a non-null bolna_call_id or a non-null
\* exotel_call_id; a Bolna event that ended normally leaves exactly one row
\* holding its call_id, and a call-complete carrying a phone number that was
\* delivered on its own (no other delivery in progress) always ends normally.
C2_OneCallPerCorrelationKey ==
    /\ \A c1 \in calls, c2 \in calls :
           c1 # c2 =>
               /\ (c1.bolna_call_id # NullId => c1.bolna_call_id # c2.bolna_call_id)
               /\ (c1.exotel_call_id # NullId => c1.exotel_call_id # c2.exotel_call_id)
    /\ \A w \in Workers :
           (vpc[w] = "done" /\ vev[w].kind \in {"call_complete", "transcript"}
                /\ vret[w] = "ok")
               => Cardinality(RowsOfBolnaId(vev[w].call_id)) = 1
    /\ \A w \in Workers :
           (FinishedCallComplete(w) /\ ~voverlap[w])
               => vret[w] = "ok" /\ Cardinality(RowsOfBolnaId(vev[w].call_id)) = 1

\* C2, reached: a later call-complete of a known call_id, delivered on its own,
\* found the record an earlier event had created and updated it
C2_LaterEventFoundTheRecord ==
    \E w \in Workers :
        /\ FinishedCallComplete(w)
        /\ ~voverlap[w]
        /\ vret[w] = "ok"
        /\ \E c \in vcall[w] : c.id # vreq[w] /\ c.bolna_call_id = vev[w].call_id
        /\ Cardinality(RowsOfBolnaId(vev[w].call_id)) = 1

\* the deliveries workers w and v hold were in progress at the same time
Concurrent(w, v) ==
    \/ vreq[w] < vreq[v]
    \/ vreq[v] < vreq[w] /\ voverlap[w]

\* both workers have finished call-complete deliveries of one call_id that were
\* in progress at the same time
SameCallRace(w, v) ==
    /\ WorkerBefore(w, v)
    /\ FinishedCallComplete(w)
    /\ FinishedCallComplete(v)
    /\ vev[w].call_id = vev[v].call_id
    /\ Concurrent(w, v)

\* C3: when two concurrent handle_call_complete deliveries of the same call_id
\* (both carrying a phone number) have finished, exactly one Call row holds
\* that call_id.
C3_ConcurrentDeliveriesOneCall ==
    \A w \in Workers, v \in Workers :
        SameCallRace(w, v) => Cardinality(RowsOfBolnaId(vev[w].call_id)) = 1

\* C3, reached: both deliveries of a previously unseen call_id have finished,
\* one created the row and committed, the other was refused
C3_RaceLoserRefused ==
    \E w \in Workers, v \in Workers :
        /\ SameCallRace(w, v)
        /\ {vret[w], vret[v]} = {"ok", "raised"}
        /\ \E c \in calls :
               /\ c.bolna_call_id = vev[w].call_id
               /\ c.id \in {vreq[w], vreq[v]}

\* C4: the Exotel event and the Bolna call-complete event of one call end up
\* on one Call row: no second row is created for the call.
C4_NoSecondRecord ==
    \A b \in BolnaCallIds :
        Cardinality(RowsOfBolnaId(b) \cup RowsOfExotelId(TelephonySidOf(b))) <= 1

\* C4, the state after the two events: the call has two rows, one per key
C4_TwoRecordsForOneCall ==
    \E b \in BolnaCallIds :
        \E c1 \in RowsOfExotelId(TelephonySidOf(b)), c2 \in RowsOfBolnaId(b) :
            /\ c1 # c2
            /\ c1.bolna_call_id = NullId
            /\ c2.exotel_call_id = NullId

\* --- SpecLoop ---------------------------------------------------------------

Returned == lpc \in {"returned_final", "returned_cap"}

\* C5: chat_with_tools never calls chat_completion more than max_iterations
\* times, it goes on only while fewer calls were made, and the iterations
\* counter (the value it returns) equals the number of calls made.
C5_CallsBoundedByMaxIterations ==
    /\ llm_calls <= max_iterations
    /\ iterations = llm_calls
    /\ Len(tools_offered) = llm_calls
    /\ (lpc = "returned_cap" => llm_calls = max_iterations)
    /\ (Returned => llm_calls >= 1)

\* C5, reached: the loop has returned after using every one of its
\* max_iterations calls, the earlier ones answered with tool calls
C5_ReturnedAfterLastAllowedCall ==
    /\ Returned
    /\ max_iterations >= 2
    /\ llm_calls = max_iterations
    /\ Len(conversation) >= 2 * (max_iterations - 1)

DisclosesOrder(res, order) ==
    \/ "status" \in DOMAIN res
    \/ \E i \in 1..Len(res.message) :
           \/ res.message[i] = StatusMessage(order.status)
           \/ order.tracking_number # "" /\ res.message[i] = order.tracking_number

\* C7: execute_get_order_status returns contents of the order only when
\* normalize_phone of the caller's phone equals normalize_phone of the order's
\* phone; when the normalized forms differ the result holds no order contents.
C7_DisclosureOnlyOnNormalizedMatch ==
    (opc = "done" /\ backend.kind = "found") =>
        /\ (DisclosesOrder(orderResult, backend.order)
               => normalize_phone(user_phone) = normalize_phone(backend.order.phone))
        /\ (normalize_phone(user_phone) # normalize_phone(backend.order.phone)
               => /\ DOMAIN orderResult = {"message"}
                  /\ ~DisclosesOrder(orderResult, backend.order))

\* C7, reached: the owner of the order, calling from a number written in
\* another notation than the order's, has been given the order's status
C7_OwnerInOtherNotationAnswered ==
    /\ opc = "done"
    /\ backend.kind = "found"
    /\ user_phone # backend.order.phone
    /\ normalize_phone(user_phone) = normalize_phone(backend.order.phone)
    /\ orderResult = AuthorizedResult(backend.order)

\* C8: the result for an order that exists but belongs to another phone is
\* identical to the result for an order id that does not exist.
C8_MismatchSameAsNotFound ==
    (/\ opc = "done"
     /\ order_id # ""
     /\ ~Falsy(user_phone)
     /\ backend.kind = "found"
     /\ normalize_phone(user_phone) # normalize_phone(backend.order.phone))
        => orderResult = execute_get_order_status(order_id, user_phone, [kind |-> "none"])

\* C8, the state that tells the two apart: the caller was refused another
\* customer's order with a message the not-found answer does not give
C8_MismatchDistinguishable ==
    /\ opc = "done"
    /\ backend.kind = "found"
    /\ ~DisclosesOrder(orderResult, backend.order)
    /\ orderResult # execute_get_order_status(order_id, user_phone, [kind |-> "none"])

\* --- SpecConfirm ------------------------------------------------------------

\* positions of the notifications sent for order o
NotificationsFor(o) == {i \in 1..Len(notifications) : notifications[i].order_id = o}

\* call b was placed to confirm an order, and a call-complete of b has notified
\* the backend of that order and retired its pending entry
OwnEntryResolved(b) ==
    \E o \in Orders :
        /\ outbound[o] = b
        /\ o \notin pending
        /\ \E i \in NotificationsFor(o) : notifications[i].call_id = b

\* worker w handles, with no other delivery in progress, a call-complete of a
\* call that had resolved its order's pending entry before this delivery began
ReplayAfterResolution(w) ==
    /\ vreplay[w]
    /\ ~voverlap[w]
    /\ OwnEntryResolved(vev[w].call_id)

\* C9: a call-complete delivered again after its call has resolved a pending
\* confirmation selects no pending entry, so it notifies nobody and deletes
\* nothing, whatever other entries are pending.
C9_ReplayProducesNoOutcome ==
    \A w \in Workers :
        ReplayAfterResolution(w) => vkey[w] = "" /\ voutcome[w] = {}

\* C9, the state after the replay: the replayed call-complete has notified the
\* backend about another order's pending entry, deleted it and returned an
\* outcome
C9_ReplayConsumedAnotherEntry ==
    \E w \in Workers :
        /\ ReplayAfterResolution(w)
        /\ vpc[w] = "done"
        /\ voutcome[w] # {}
        /\ vkey[w] \notin pending
        /\ outbound[vkey[w]] # vev[w].call_id
        /\ \E i \in NotificationsFor(vkey[w]) : notifications[i].call_id = vev[w].call_id

\* positions of the confirm_order calls for order o that reached the backend
DeliveredFor(o) == {i \in NotificationsFor(o) : notifications[i].delivered}

\* C10: each pending confirmation entry leads to at most one confirm_order
\* notification, however call-complete events interleave.
C10_OneNotificationPerEntry ==
    \A o \in Orders :
        outbound[o] # NullId => Cardinality(DeliveredFor(o)) <= 1

\* C10, the state of the race: two call-complete events have each sent
\* confirm_order for the same pending entry
C10_EntryNotifiedTwice ==
    \E o \in Orders :
        /\ outbound[o] # NullId
        /\ \E i \in DeliveredFor(o), j \in DeliveredFor(o) :
               i # j /\ notifications[i].call_id # notifications[j].call_id

\* C11: a pending confirmation is consumed only by the completion of the call
\* placed for its order: every confirm_order sent for an order whose
\* confirmation call was placed comes from a call-complete of that call.
C11_ConsumedOnlyByOwnCall ==
    \A i \in 1..Len(notifications) :
        (notifications[i].delivered /\ outbound[notifications[i].order_id] # NullId)
            => notifications[i].call_id = outbound[notifications[i].order_id]

\* C11, the state after the wrong call: the call-complete of another call has
\* notified the backend about the order and deleted its pending entry
C11_ConsumedByAnotherCall ==
    \E w \in Workers :
        /\ vpc[w] = "done"
        /\ vkey[w] # ""
        /\ outbound[vkey[w]] # NullId
        /\ outbound[vkey[w]] # vev[w].call_id
        /\ vkey[w] \notin pending
        /\ \E i \in NotificationsFor(vkey[w]) :
               notifications[i].call_id = vev[w].call_id /\ notifications[i].delivered

\* --- SpecClassify -----------------------------------------------------------

\* worker w has sent confirm_order for the entry it took
Notified(w) == vkey[w] # "" /\ vpc[w] \in {"pcc_delete", "commit", "done"}

\* the confirm_order calls made by worker w's delivery for the entry it took
NotificationsOf(w) ==
    {i \in NotificationsFor(vkey[w]) : notifications[i].call_id = vev[w].call_id}

\* C12: when the call's status is missed, no-answer, busy or failed, the
\* outcome is confirmed = false with the not-answered note, whatever the
\* transcript holds.
C12_NotAnsweredIsRejected ==
    \A w \in Workers :
        (Notified(w) /\ vev[w].status \in {S_missed, S_no_answer, S_busy, S_failed}) =>
            /\ NotificationsOf(w) # {}
            /\ \A i \in NotificationsOf(w) :
                   /\ notifications[i].confirmed = FALSE
                   /\ notifications[i].notes = <<"Call not answered: ", vev[w].status>>
            /\ \A out \in voutcome[w] :
                   /\ out.confirmed = FALSE
                   /\ out.notes = <<"Call not answered: ", vev[w].status>>

\* C12, reached: a busy call whose transcript says yes has been resolved as
\* not answered
C12_BusyCallWithYesRejected ==
    \E w \in Workers :
        /\ vpc[w] = "done"
        /\ vev[w].status = S_busy
        /\ vev[w].transcript = TextYes
        /\ \E out \in voutcome[w] :
               out.confirmed = FALSE /\ out.notes = <<"Call not answered: ", S_busy>>

\* the call of worker w connected: its status is none of the not-answered ones
Connected(w) == vev[w].status \notin {S_missed, S_no_answer, S_busy, S_failed}

\* C13: for a connected call the outcome is confirmed exactly when the
\* transcript holds more affirmative than negative keywords; otherwise it is
\* rejected when a negative keyword is present and unclear when none is; it is
\* never confirmed on a tie, without keywords or without a transcript.
C13_ConfirmedIffMoreAffirmative ==
    \A w \in Workers :
        (Notified(w) /\ Connected(w)) =>
            LET tr == vev[w].transcript
                pos == IF Falsy(tr) THEN 0 ELSE positive_count(tr)
                neg == IF Falsy(tr) THEN 0 ELSE negative_count(tr)
            IN  /\ NotificationsOf(w) # {}
                /\ \A i \in NotificationsOf(w) :
                       /\ notifications[i].confirmed = (pos > neg)
                       /\ (pos > neg) => notifications[i].notes =
                              <<"Customer confirmed order via voice call">>
                       /\ (~Falsy(tr) /\ pos <= neg /\ neg > 0) => notifications[i].notes =
                              <<"Customer rejected/cancelled order via voice call">>
                       /\ (~Falsy(tr) /\ pos = 0 /\ neg = 0) => notifications[i].notes =
                              <<"Customer response unclear">>
                       /\ Falsy(tr) => notifications[i].notes = <<"No transcript available">>

\* C13, reached: a connected call whose transcript holds one affirmative and
\* one negative keyword has been resolved as rejected
C13_TieRejected ==
    \E w \in Workers :
        /\ vpc[w] = "done"
        /\ vev[w].status = S_completed
        /\ vev[w].transcript = TextYesNo
        /\ \E out \in voutcome[w] :
               /\ out.confirmed = FALSE
               /\ out.notes = <<"Customer rejected/cancelled order via voice call">>

\* --- SpecContext ------------------------------------------------------------

\* position of turn t in the stored context, 0 when it is not there
PositionOf(t) ==
    IF \E i \in 1..Len(context) : context[i] = t
    THEN CHOOSE i \in 1..Len(context) : context[i] = t
    ELSE 0

\* C14: when two messages of one phone have both been processed, the stored
\* context holds the user turn and the assistant turn of both, each user turn
\* before its own assistant turn.
C14_NoTurnLost ==
    (\A m \in Messages : xpc[m] = "done") =>
        \A m \in Messages :
            /\ PositionOf(UserTurn(m)) > 0
            /\ PositionOf(AssistantTurn(m)) > PositionOf(UserTurn(m))

\* C14, the state after the race: both messages are processed and the context
\* has lost the user turn of one of them
C14_UserTurnLost ==
    /\ \A m \in Messages : xpc[m] = "done"
    /\ \E m \in Messages : PositionOf(UserTurn(m)) = 0

\* --- call-complete events that carry no phone number -----------------------

\* the payload of worker w names no caller in any of its three places
CarriesNoPhone(w) ==
    /\ vev[w].kind = "call_complete"
    /\ vev[w].user_phone = None
    /\ vev[w].from_number = None
    /\ vev[w].telephony_from = None

\* worker w is about to look up a call id that no call record has
AtUnknownCall(w) ==
    /\ vpc[w] = "cc_find"
    /\ \A c \in calls : c.bolna_call_id # vev[w].call_id

\* C15: a call-complete event for a call id no record has, carrying no phone
\* number, is discarded in one step: it stages and stores no call, conversation,
\* user or transcript, and it reads, notifies and deletes no pending
\* confirmation.
C15_UnknownCallWithoutPhoneDiscarded ==
    [][\A w \in Workers :
          (AtUnknownCall(w) /\ CarriesNoPhone(w) /\ vpc'[w] # vpc[w]) =>
              /\ vpc'[w] = "done"
              /\ vret'[w] = "missing_phone_number"
              /\ vtx'[w] = EmptyTx
              /\ vkeys'[w] = {} /\ vkey'[w] = "" /\ voutcome'[w] = {}
              /\ UNCHANGED <<dbVars, redisVars>>]_vars

\* C15, the case: an event was discarded for want of a phone number while a
\* confirmation was pending, and the pending entry is still there
C15_DiscardedWhilePending ==
    \E w \in Workers :
        /\ vret[w] = "missing_phone_number"
        /\ CarriesNoPhone(w)
        /\ pending # {}
        /\ notifications = <<>>
        /\ calls = {}

\* --- SpecRetry ----------------------------------------------------------------

\* the faults the retry is meant for
TransientFaults == {"httpx.ConnectError", "httpx.TimeoutException", "http_429"}

\* C16: a chat_completion call gives up on a connection error, a timeout or a
\* 429 only after STOP_AFTER_ATTEMPT attempts, never makes more attempts than
\* that, and then raises LLMConnectionError or LLMRateLimitError.
C16_TransientFailuresRetried ==
    \A i \in 1..Len(rlog) :
        /\ rlog[i].attempts <= STOP_AFTER_ATTEMPT
        /\ rlog[i].fault \in TransientFaults =>
              /\ rlog[i].attempts = STOP_AFTER_ATTEMPT
              /\ rlog[i].raised \in {"LLMConnectionError", "LLMRateLimitError"}

\* C16, the divergence: a call raised LLMConnectionError after a single attempt
C16_ConnectionErrorNotRetried ==
    /\ rpc = "raised"
    /\ rerror = "LLMConnectionError"
    /\ rattempt = 1

\* --- exceptions of _get_llm_response ----------------------------------------

TranscriptAndCompleteDelivered(t, c) ==
    /\ vpc[t] = "done" /\ vpc[c] = "done"
    /\ vev[t].kind = "transcript"
    /\ vev[c].kind = "call_complete"
    /\ vev[t].call_id = vev[c].call_id

\* call id b has exactly one record, and the transcript text is stored for it
OneCallWithTranscript(b, text) ==
    /\ Cardinality(RowsOfBolnaId(b)) = 1
    /\ \A r \in RowsOfBolnaId(b) :
          \E x \in transcripts : x.call_id = r.id /\ x.transcript = text

\* C18: once a transcript event and a call-complete event of one call have both
\* been handled, in whichever order, there is one Call record of that call and
\* the transcript is stored for it.
C18_EitherOrderStoresTranscript ==
    \A t \in Workers, c \in Workers :
        TranscriptAndCompleteDelivered(t, c) =>
            OneCallWithTranscript(vev[t].call_id, vev[t].transcript)

\* C18, the divergence: the transcript event came first and was ignored, the
\* call-complete event then created the record, and no transcript is stored
C18_TranscriptFirstIsLost ==
    /\ TranscriptAndCompleteDelivered("w1", "w2")
    /\ vret["w1"] = "call_not_found"
    /\ vret["w2"] = "ok"
    /\ Cardinality(RowsOfBolnaId(vev["w1"].call_id)) = 1
    /\ transcripts = {}

\* --- the status table ---------------------------------------------------------

\* the table as the specification states it, over lower-case provider statuses
TableStatuses ==
    {S_completed, S_resolved, S_escalated, S_transferred, S_failed, S_error,
     S_missed, S_no_answer, S_busy, S_canceled}

StatedStatus(st) ==
    IF st \in {S_completed, S_resolved} THEN "RESOLVED"
    ELSE IF st \in {S_escalated, S_transferred} THEN "ESCALATED"
    ELSE IF st \in {S_failed, S_error} THEN "FAILED"
    ELSE "MISSED"

\* the worker that served the latest request
LastServed == IF started <= 1 THEN "w1" ELSE "w2"

\* the latest request was a call-complete event and has been answered with ok
LastCallCompleteStored ==
    /\ started >= 1
    /\ \A w \in Workers : ~Active(w)
    /\ vev[LastServed].kind = "call_complete"
    /\ vret[LastServed] = "ok"

\* C19: after a call-complete event whose status, in lower case, is in the
\* table, the record of its call has the status the table states for it.
C19_StatusFollowsStatedTable ==
    (LastCallCompleteStored /\ Lower(vev[LastServed].status) \in TableStatuses) =>
        \A r \in RowsOfBolnaId(vev[LastServed].call_id) :
            r.status = StatedStatus(Lower(vev[LastServed].status))

\* C19, the divergence: the record of a call existed, a call-complete event
\* with status canceled was stored for it, and the record's status is RESOLVED
C19_CanceledStoredAsResolved ==
    /\ LastCallCompleteStored
    /\ started = 2
    /\ vev["w1"].kind = "call_complete"
    /\ vev["w1"].call_id = vev["w2"].call_id
    /\ vev["w2"].status = S_canceled
    /\ \E r \in RowsOfBolnaId(vev["w2"].call_id) : r.status = "RESOLVED"

\* the table is applied case-insensitively: Missed is stored as MISSED
StatusCaseInsensitive ==
    (LastCallCompleteStored /\ vev[LastServed].status = S_Missed) =>
        \A r \in RowsOfBolnaId(vev[LastServed].call_id) : r.status = "MISSED"

\* --- SpecFields -----------------------------------------------------------------

\* the event carries no duration, no language, no recording URL
OmitsDuration(e) ==
    IF e.kind = "call_complete"
    THEN e.duration_seconds = {} /\ e.telephony_call_duration = {}
    ELSE e.Duration = None

OmitsLanguage(e) == e.kind = "call_complete" => e.language = None

OmitsRecordingUrl(e) ==
    IF e.kind = "call_complete"
    THEN e.recording_url = None /\ e.telephony_recording_url = None
    ELSE e.RecordingUrl = None

\* worker w commits a call-status event for which it found an existing record
CommitsUpdate(w) ==
    /\ vpc[w] = "commit"
    /\ vret'[w] = "ok"
    /\ vev[w].kind \in {"call_complete", "exotel"}

C21_RaceLoserAppliedAsUpdate ==
    \A w \in Workers, v \in Workers :
        SameCallRace(w, v) => vret[w] = "ok" /\ vret[v] = "ok"

\* C21, the divergence: of two racing deliveries with different statuses one
\* created the record, the other ended with the exception of the uniqueness
\* conflict, and the status it carried is not on the record
C21_RaceLoserRaised ==
    \E w \in Workers, v \in Workers :
        /\ SameCallRace(w, v) \/ SameCallRace(v, w)
        /\ vret[w] = "ok"
        /\ vret[v] = "raised"
        /\ BolnaCallStatus(vev[v].status) # BolnaCallStatus(vev[w].status)
        /\ \A c \in RowsOfBolnaId(vev[v].call_id) :
               c.status = BolnaCallStatus(vev[w].status)
        /\ RowsOfBolnaId(vev[v].call_id) # {}

\* --- SpecTool -------------------------------------------------------------------

\* the texts of the exceptions the collaborators can raise
ExceptionTexts == {ExceptionText(f) : f \in ToolFaults}

\* C22: whatever the tool, its arguments and the fault of its collaborator, the
\* answer of handle_tool_call is a normal one, an error of the collaborator
\* comes back as a message, and no answer carries the text of an exception.
C22_ToolFailuresBecomeFallbackMessage ==
    tpc = "responded" =>
        /\ tool_response.status = "ok"
        /\ (tool_name \in VoiceTools => "message" \in DOMAIN tool_response.result)
        /\ ("message" \in DOMAIN tool_response.result
               => tool_response.result.message \notin ExceptionTexts)
        /\ "error" \notin DOMAIN tool_response

\* C22, the divergence: the order backend answered with a body that is no JSON
\* and handle_tool_call answered with the text of the exception
C22_ExceptionTextAnswered ==
    /\ tpc = "responded"
    /\ tool_name = "get_order_status"
    /\ tool_fault = "invalid_body"
    /\ tool_response = [status |-> "error", error |-> ExceptionText("invalid_body")]

\* --- SpecChatTool ---------------------------------------------------------------

\* the tool call names no registered tool, or its arguments value does not hold
\* a non-null value for every required parameter of the tool
CallIsInvalid ==
    \/ tool_name \notin DOMAIN TOOL_REQUIRED_PARAMS
    \/ \E i \in 1..Len(TOOL_REQUIRED_PARAMS[tool_name]) :
          LET param == TOOL_REQUIRED_PARAMS[tool_name][i]
          IN  \/ tool_args.type # "dict"
              \/ param \notin DOMAIN tool_args.members
              \/ tool_args.members[param] = None

\* C23: a tool call with an unregistered name or without a required argument
\* never raises; execute answers it with an error result without invoking a
\* handler, and that result is the content of the tool turn of the call.
C23_InvalidCallRejectedAsToolTurn ==
    (tpc \in {"executed", "raised", "appended"} /\ CallIsInvalid) =>
        /\ tpc # "raised"
        /\ ~tool_response.invoked
        /\ tpc = "appended" => "error" \in DOMAIN tool_response.content

\* C23, the divergence: the arguments string of a get_order_status call was the
\* JSON value null, and validate_tool_arguments raised
C23_NullArgumentsRaise ==
    /\ tpc = "raised"
    /\ tool_name = "get_order_status"
    /\ tool_args = PyNone

\* the calls the claim names are rejected: an unregistered name, a missing or
\* null required argument of an object, and a string that is no JSON
InvalidObjectRejected ==
    (tpc = "appended" /\ CallIsInvalid /\ tool_args.type = "dict") =>
        /\ ~tool_response.invoked
        /\ "error" \in DOMAIN tool_response.content

\* --- SpecContextCap -------------------------------------------------------------

\* the smaller of two numbers
Minimum(a, b) == IF a <= b THEN a ELSE b

\* C24: after n add_to_context calls made one after another on one key, the
\* stored context is the last min(n, 20) turns given, in the order given.
C24_ContextIsLastTwentyTurns ==
    /\ Len(context) = Minimum(Len(appended), 20)
    /\ \A i \in 1..Len(context) :
          context[i] = appended[Len(appended) - Len(context) + i]

\* C24, the case: 22 turns were given, the store holds 20, and the oldest
\* stored turn is the third one given
C24_OldestTwoEvicted ==
    /\ Len(appended) = 22
    /\ Len(context) = 20
    /\ context[1].content = <<"turn ", 3>>
    /\ context[20].content = <<"turn ", 22>>

\* --- SpecLoop: a failing context store ------------------------------------------

\* C25: a failure of the context store does not fail the conversation: every
\* reply follows an LLM call, and a reply the LLM gave is the reply sent.
C25_StoreFailureStillAnswered ==
    lpc = "replied" =>
        /\ llm_calls >= 1
        /\ ~Falsy(content) => response_text = content

\* C25, the case: the LLM returned a reply, storing it raised, and the user was
\* sent the apology
C25_ReplyReplacedByApology ==
    /\ lpc = "replied"
    /\ llm_calls >= 1
    /\ ~Falsy(content)
    /\ response_text = TroubleApology

\* --- SpecPhone ------------------------------------------------------------------

\* C26: normalize_phone returns "+91" followed by the ten digits for the number
\* written bare, with 91 or with +91, with or without spaces and dashes, and
\* the empty string for None.
C26_WrittenFormsNormalized ==
    ppc = "done" =>
        IF written = None
        THEN normalized = <<>>
        ELSE normalized = <<"+", "9", "1">> \o phone_number

\* C26, the case: the docstring example "91 9876543210" came back without
\* the plus sign
C26_PrefixWithoutPlusKept ==
    /\ ppc = "done"
    /\ written = <<"9", "1", " ">> \o NumberA
    /\ normalized = <<"9", "1">> \o NumberA

\* the forms that do come back normalized: the bare number, and the number
\* after +91 unless its first digit is 0
NormalizedForms ==
    ppc = "done" /\ written # None
      /\ (~StartsWith(written, <<"9", "1">>) \/ KeepDigitsAndPlus(written) = phone_number)
      /\ ~(StartsWith(written, <<"+">>) /\ phone_number[1] = "0")
    => normalized = <<"+", "9", "1">> \o phone_number

\* --- SpecLoop: the tool list ----------------------------------------------------

\* C27: the i-th LLM call of chat_with_tools is given the tool list exactly
\* when i is below max_iterations, so the max_iterations-th call is given none
\* and with max_iterations = 1 no call is given any.
C27_ToolsWithheldOnLastIteration ==
    /\ Len(tools_offered) = llm_calls
    /\ \A i \in 1..Len(tools_offered) : tools_offered[i] <=> i < max_iterations
    /\ max_iterations = 1 => \A i \in 1..Len(tools_offered) : ~tools_offered[i]

\* C27, the case: three calls were allowed and made, the first two were given
\* the tool list and the third was not
C27_ThirdOfThreeCallsWithoutTools ==
    /\ max_iterations = 3
    /\ llm_calls = 3
    /\ tools_offered = <<TRUE, TRUE, FALSE>>

\* --- SpecLoop: the turns of a tool round ----------------------------------------

\* C28: when a response asks for the calls c1..cn and the loop goes on to its
\* next LLM call, the conversation has grown by one assistant turn carrying
\* the list and then n tool turns, the i-th answering ci, and each ci was
\* executed once, in order.
C28_OneToolTurnPerRequestedCall ==
    [][(lpc = "got_response" /\ response.tool_calls # <<>> /\ lpc' = "while") =>
          LET asked == response.tool_calls
              n == Len(asked)
              k == Len(conversation)
          IN  /\ Len(conversation') = k + 1 + n
              /\ SubSeq(conversation', 1, k) = conversation
              /\ conversation'[k + 1].role = "assistant"
              /\ conversation'[k + 1].tool_calls = asked
              /\ \A i \in 1..n :
                    /\ conversation'[k + 1 + i].role = "tool"
                    /\ conversation'[k + 1 + i].tool_call_id = asked[i].id
              /\ Len(tool_calls_made') = Len(tool_calls_made) + n
              /\ \A i \in 1..n :
                    tool_calls_made'[Len(tool_calls_made) + i] = asked[i].name
              /\ llm_calls' = llm_calls]_vars

\* C28, the case: a response asked for two asked, both ran, and the loop is
\* about to call the LLM again
C28_TwoCallsAnsweredInOrder ==
    /\ lpc = "while"
    /\ llm_calls = 1
    /\ response.tool_calls = <<ToolCallA, ToolCallB>>
    /\ Len(conversation) = 3
    /\ conversation[2].tool_call_id = "call_a"
    /\ conversation[3].tool_call_id = "call_b"
    /\ tool_calls_made = <<"search_products", "get_order_status">>

\* --- SpecClassify: what the classifier counts -----------------------------------

\* the word of s that starts at position i
WordAt(s, i) ==
    SubSeq(s, i, CHOOSE j \in i..Len(s) :
                    /\ \A k \in i..j : s[k] # " "
                    /\ j = Len(s) \/ s[j + 1] = " ")

\* the positions of s at which a word starts
WordStarts(s) == {i \in 1..Len(s) : s[i] # " " /\ (i = 1 \/ s[i - 1] = " ")}

\* how many words of the transcript, in lower case, are keywords of the list
TokenCount(tr, keywords) ==
    Cardinality({i \in WordStarts(tr) : WordAt(Lower(tr), i) \in keywords})

\* C29: the counts the classifier compares are numbers of words of the
\* transcript that are keywords: a connected call is confirmed exactly when
\* more of its words are affirmative than negative keywords, and is rejected,
\* not unclear, exactly when it is not confirmed and some word is a negative
\* keyword.
C29_CountsAreKeywordTokens ==
    \A w \in Workers :
        (Notified(w) /\ Connected(w) /\ ~Falsy(vev[w].transcript)) =>
            LET tr == vev[w].transcript
                pos == TokenCount(tr, positive_keywords)
                neg == TokenCount(tr, negative_keywords)
            IN  \A i \in NotificationsOf(w) :
                    /\ notifications[i].confirmed = (pos > neg)
                    /\ (pos <= neg /\ neg > 0) => notifications[i].notes =
                           <<"Customer rejected/cancelled order via voice call">>
                    /\ (pos = 0 /\ neg = 0) => notifications[i].notes =
                           <<"Customer response unclear">>

\* C29, the case: "okay no" holds one affirmative and one negative word and was
\* resolved as confirmed, "okay" having counted for ok and for okay
C29_OkayCountedTwice ==
    \E w \in Workers :
        /\ vpc[w] = "done"
        /\ vev[w].status = S_completed
        /\ vev[w].transcript = TextOkayNo
        /\ TokenCount(TextOkayNo, positive_keywords) = 1
        /\ positive_count(TextOkayNo) = 2
        /\ \E out \in voutcome[w] : out.confirmed = TRUE

\* --- SpecLastWriter -------------------------------------------------------------

\* the value an event supplies for a field of the record, as a set: empty when
\* the event carries none
SuppliedLanguage(e) ==
    IF e.kind \in {"call_complete", "transcript"} /\ ~Falsy(e.language)
    THEN {e.language} ELSE {}

SuppliedRecordingUrl(e) ==
    CASE e.kind = "call_complete" ->
            IF Falsy(CallCompleteRecordingUrl(e)) THEN {} ELSE {CallCompleteRecordingUrl(e)}
      [] e.kind = "exotel" -> IF Falsy(e.RecordingUrl) THEN {} ELSE {e.RecordingUrl}
      [] OTHER -> {}

SuppliedDuration(e) ==
    CASE e.kind = "call_complete" ->
            IF FalsyInt(CallCompleteDuration(e)) THEN {} ELSE CallCompleteDuration(e)
      [] e.kind = "exotel" ->
            IF FalsyInt(parse_duration(e.Duration)) THEN {} ELSE parse_duration(e.Duration)
      [] OTHER -> {}

SuppliedStatus(e) ==
    CASE e.kind = "call_complete" -> {BolnaCallStatus(e.status)}
      [] e.kind = "exotel" -> {ExotelCallStatus(e)}
      [] OTHER -> {}

\* C30: when an event is committed for an existing record, each of status,
\* duration, recording URL and language that the event supplies is the stored
\* value afterwards, a transcript event's language included.
C30_LastSuppliedValueStored ==
    [][\A w \in Workers :
          (vpc[w] = "commit" /\ vret'[w] = "ok") =>
              \A c \in vcall[w] : \E r \in calls' :
                  /\ r.id = c.id
                  /\ \A v \in SuppliedStatus(vev[w]) : r.status = v
                  /\ \A v \in SuppliedDuration(vev[w]) : r.duration_seconds = {v}
                  /\ \A v \in SuppliedRecordingUrl(vev[w]) : r.recording_url = v
                  /\ \A v \in SuppliedLanguage(vev[w]) : r.language = v]_vars

\* C30, the case: the record of b1 was stored with language en, a transcript
\* event of b1 with language ta was committed, and the record still says en
C30_TranscriptLanguageNotStored ==
    /\ vev["w2"] = TranscriptWith("b1", TextYes, LangTa)
    /\ vpc["w2"] = "done"
    /\ vret["w2"] = "ok"
    /\ \E r \in RowsOfBolnaId("b1") : r.language = LangEn

\* the same property for call-status events alone
LastSuppliedValueOfStatusEventStored ==
    [][\A w \in Workers :
          (vpc[w] = "commit" /\ vret'[w] = "ok" /\ vev[w].kind # "transcript") =>
              \A c \in vcall[w] : \E r \in calls' :
                  /\ r.id = c.id
                  /\ \A v \in SuppliedStatus(vev[w]) : r.status = v
                  /\ \A v \in SuppliedDuration(vev[w]) : r.duration_seconds = {v}
                  /\ \A v \in SuppliedRecordingUrl(vev[w]) : r.recording_url = v
                  /\ \A v \in SuppliedLanguage(vev[w]) : r.language = v]_vars

\* --- SpecProvider ---------------------------------------------------------------

\* C31: every stored call has a non-empty customer phone, and no user or
\* conversation exists for an event that carried no customer number.
C31_EveryCallHasCustomerPhone ==
    /\ \A c \in calls : ~Falsy(c.phone)
    /\ \A u \in users : ~Falsy(u)

\* C31, the case: an inbound Exotel event of an unknown CallSid with an empty
\* From was committed, and a call, its conversation and a user with the empty
\* phone are stored
C31_CallWithoutPhoneCreated ==
    \E w \in Workers :
        /\ vev[w] = ExotelStatus("e1", <<>>, S_completed)
        /\ vpc[w] = "done"
        /\ vret[w] = "ok"
        /\ \E c \in RowsOfExotelId("e1") :
              /\ c.phone = <<>>
              /\ c.conversation_id \in conversations
        /\ <<>> \in users

\* worker w has finished an event whose provider status is in no status table
FinishedUnknownStatus(w) ==
    /\ vpc[w] = "done"
    /\ (IF vev[w].kind = "call_complete" THEN vev[w].status ELSE vev[w].Status) = S_ringing

\* the rows of the call an event names
RowsOfEvent(e) ==
    IF e.kind = "call_complete" THEN RowsOfBolnaId(e.call_id) ELSE RowsOfExotelId(e.CallSid)

\* C32: an event whose provider status is in no table is handled without an
\* exception, and the status stored for it is the same default whichever
\* provider sent it.
C32_UnknownStatusSameDefault ==
    \A w \in Workers, v \in Workers :
        (FinishedUnknownStatus(w) /\ FinishedUnknownStatus(v)) =>
            /\ vret[w] = "ok"
            /\ \A r \in RowsOfEvent(vev[w]), q \in RowsOfEvent(vev[v]) : r.status = q.status

\* C32, the case: the status "ringing" came once from Bolna and once from
\* Exotel, both events were handled without an exception, and the Bolna call
\* is stored as RESOLVED, the Exotel call as FAILED
C32_DefaultsDiffer ==
    \E w \in Workers, v \in Workers :
        /\ FinishedUnknownStatus(w) /\ vev[w].kind = "call_complete" /\ vret[w] = "ok"
        /\ FinishedUnknownStatus(v) /\ vev[v].kind = "exotel" /\ vret[v] = "ok"
        /\ \E r \in RowsOfBolnaId("b1") : r.status = "RESOLVED"
        /\ \E q \in RowsOfExotelId("e1") : q.status = "FAILED"

\* the part of the statement that holds: no event with an unknown status ends
\* with an exception, and each provider has one default (read off the record
\* while the event is the latest one delivered)
UnknownStatusNeverRaises ==
    \A w \in Workers :
        FinishedUnknownStatus(w) =>
            /\ vret[w] = "ok"
            /\ \A r \in RowsOfEvent(vev[w]) :
                  (w = "w2" \/ started = 1) =>
                  r.status = (IF vev[w].kind = "call_complete" THEN "RESOLVED" ELSE "FAILED")

\* --- SpecConfirm: entries without a call ----------------------------------------

\* C33: a pending confirmation entry exists only for an order whose outbound
\* confirmation call was initiated.
C33_PendingOnlyWithInitiatedCall ==
    \A o \in pending : outbound[o] # NullId

\* C33, the case: /confirm-order was received for ORD1, make_outbound_call
\* failed, and the entry of ORD1 is pending
C33_PendingWithoutCall ==
    /\ "ORD1" \in requested
    /\ outbound["ORD1"] = NullId
    /\ "ORD1" \in pending

\* --- SpecNotify -----------------------------------------------------------------

\* worker w's delivery called confirm_order for the entry it took, the call
\* raised, and the delivery has gone past the resolution
NotificationFailed(w) ==
    /\ vkey[w] # ""
    /\ vpc[w] \in {"commit", "done"}
    /\ \E i \in NotificationsOf(w) : ~notifications[i].delivered

\* C34: when confirm_order raised while an entry was being resolved, the entry
\* is deleted all the same, the outcome is returned, the handler ends
\* normally, and no later event notifies the backend of that order again.
C34_FailedNotificationStillResolves ==
    \A w \in Workers :
        NotificationFailed(w) =>
            /\ vkey[w] \notin pending
            /\ voutcome[w] = {ConfirmationOutcome(vkey[w], vev[w].transcript, vev[w].status)}
            /\ vpc[w] = "done" => vret[w] = "ok"
            /\ Cardinality(NotificationsFor(vkey[w])) = 1

\* C34, the case: the first call-complete took the entry of ORD1 and its
\* confirm_order raised; the handler ended normally, the entry is gone, and a
\* later call-complete has ended without a notification for ORD1
C34_LaterEventDidNotResend ==
    /\ vpc["w1"] = "done" /\ vret["w1"] = "ok"
    /\ vkey["w1"] = "ORD1"
    /\ vpc["w2"] = "done" /\ vret["w2"] = "ok"
    /\ "ORD1" \notin pending
    /\ NotificationsFor("ORD1") = {1}
    /\ ~notifications[1].delivered

\* --- SpecRedeliver --------------------------------------------------------------

\* the deliveries of message m whose processing raised after the mark
FailedDeliveries(m) == {d \in Deliveries : wmsg[d] = m /\ returned[d] = "raised"}

\* C35: when the processing of a message id failed after the id was marked
\* and before a reply was sent, then within the dedup TTL every later delivery
\* of the id is skipped and no reply to the message has been sent.
C35_FailedMessageNeverAnswered ==
    \A m \in MessageIds :
        (m \notin ttlElapsed /\ FailedDeliveries(m) # {}) =>
            /\ sent[m] = 0
            /\ Cardinality(FailedDeliveries(m)) = 1
            /\ \A d \in Deliveries \ FailedDeliveries(m) :
                   (wmsg[d] = m /\ wpc[d] = "done") => returned[d] = "None"

\* C35, the case: one delivery of wamid.1 failed after the mark, two later
\* deliveries of it were skipped, and no reply was sent
C35_RedeliveriesSkipped ==
    /\ "wamid.1" \notin ttlElapsed
    /\ returned[1] = "raised" /\ wmsg[1] = "wamid.1"
    /\ \A d \in {2, 3} : wmsg[d] = "wamid.1" /\ wpc[d] = "done" /\ returned[d] = "None"
    /\ sent["wamid.1"] = 0

\* --- SpecClassify: the status the record gets and the status the outcome sees ---

\* C36: when the call-complete event marks the call record MISSED or FAILED,
\* the confirmation outcome of the same event is the not-answered rejection,
\* whatever the transcript holds.
C36_MissedOrFailedIsNotAnswered ==
    \A w \in Workers :
        (Notified(w) /\ BolnaCallStatus(vev[w].status) \in {"MISSED", "FAILED"}) =>
            \A i \in NotificationsOf(w) :
                /\ notifications[i].confirmed = FALSE
                /\ notifications[i].notes = <<"Call not answered: ", vev[w].status>>

\* C36, the case: a call-complete with status "Missed" and transcript "yes" was
\* handled; the record is MISSED and the order was reported confirmed
C36_MissedCallConfirmed ==
    \E w \in Workers :
        /\ vpc[w] = "done" /\ vret[w] = "ok"
        /\ vev[w].status = S_Missed
        /\ vev[w].transcript = TextYes
        /\ \E r \in RowsOfBolnaId(vev[w].call_id) : r.status = "MISSED"
        /\ \E out \in voutcome[w] :
              /\ out.confirmed = TRUE
              /\ out.notes = <<"Customer confirmed order via voice call">>

\* --- SpecOrder: orders that carry no phone number ---

\* the lookup returned the order's contents (its status)
OrderDisclosed == opc = "done" /\ "status" \in DOMAIN orderResult

\* C37: order contents are returned only when the two normalized phones are
\* equal and non-empty; an order without a phone number is never disclosed.
C37_DisclosedOnlyOnNonEmptyMatch ==
    OrderDisclosed =>
        /\ normalize_phone(user_phone) = normalize_phone(backend.order.phone)
        /\ normalize_phone(user_phone) # <<>>
        /\ ~Falsy(backend.order.phone)

\* C37, the case: a caller whose phone holds no digit was given the contents of
\* an order that carries no phone number
C37_PhonelessOrderDisclosed ==
    /\ OrderDisclosed
    /\ ~Falsy(user_phone)
    /\ normalize_phone(user_phone) = <<>>
    /\ backend.order.phone = <<>>

\* --- SpecContext: a message whose LLM call failed ---

\* the turns that processing message m could store
TurnsOf(m) == {UserTurn(m), AssistantTurn(m)}

\* C38: when chat_with_tools raised for a message, no SETEX of the context key
\* was made for it: every write the key ever received (each of which stores a
\* turn and renews the TTL) stored a turn of another message, so neither the
\* user's turn nor an assistant turn (the apology included) of the failed
\* message is in the entry.
C38_FailedLlmLeavesContextAlone ==
    \A m \in Messages :
        xpc[m] = "failed" =>
            /\ \A i \in 1..Len(appended) :
                   \E o \in Messages \ {m} : appended[i] \in TurnsOf(o)
            /\ \A i \in 1..Len(context) :
                   /\ context[i] \notin TurnsOf(m)
                   /\ context[i].content # TroubleApology

\* C38, the case: chat_with_tools raised for one message while the entry holds
\* the turns of the other message, and nothing else
C38_FailedBesideStoredTurns ==
    \E m \in Messages, o \in Messages :
        /\ m # o
        /\ xpc[m] = "failed"
        /\ xpc[o] = "done"
        /\ context = <<UserTurn(o), AssistantTurn(o)>>
        /\ appended = context

\* --- SpecPhoneTwice ---

\* C39: normalize_phone is idempotent: applied to its own result it returns
\* that result unchanged.
C39_NormalizeIdempotent ==
    ppc = "again" => normalized = written

\* C39, the case: the ten-digit number 0987654321 was normalized twice; the
\* first call prefixed +91, the second call removed the 0
C39_LeadingZeroDroppedOnSecondCall ==
    /\ ppc = "again"
    /\ phone_number = NumberZ
    /\ written = <<"+", "9", "1">> \o NumberZ
    /\ normalized = <<"+", "9", "1">> \o SubSeq(NumberZ, 2, 10)

\* --- SpecShip ---

\* C40: the Authorization header of the HTTP client in use carries the current
\* token in every reachable state, and every tracking request was sent with
\* the token that was current when it was sent.
C40_HeaderCarriesCurrentToken ==
    /\ \A c \in client : ~c.is_closed => c.authorization = Bearer(token)
    /\ \A i \in 1..Len(requests) :
           requests[i].sent => requests[i].authorization = Bearer(requests[i].token)

\* C40, the case: the token was renewed before a tracking call, and the call
\* was sent on the client made for the first token
C40_RequestSentWithOldToken ==
    \E i \in 1..Len(requests) :
        /\ requests[i].sent
        /\ requests[i].token = {2}
        /\ requests[i].authorization = Bearer({1})
        /\ token = {2}

=============================================================================
